---- MODULE Spec2Model ----
(***************************************************************************)
(* A model of the verification/resolution engine of GEOMetaX               *)
(* (src/GEOMetaX/parser_extractor.py): the histone-mark grammar, the       *)
(* factor resolver (verify_factor and its callers) and the ontology        *)
(* resolver (verify_ontology and the five-tier waterfall).                 *)
(*                                                                         *)
(* Text is modelled as a sequence of one-character strings, so that the    *)
(* normalisers and the grammar work on characters as the code does.        *)
(* The language-model calls (is_control, extract_factor, the pickers,      *)
(* generate_synonyms, factor_recheck, generate_alternate_names) are        *)
(* oracles: every answer they can give, and a raised exception, is a       *)
(* nondeterministic choice of the action that makes the call.              *)
(***************************************************************************)
EXTENDS Integers, Sequences, FiniteSets, TLC

VARIABLES
  \* ---- histone grammar (validate_histone_mark) ----
  hpc,          \* "variant" | "build" | "done"
  mark,         \* the string handed to validate_histone_mark
  hTriples,     \* number of residue/position/modification triples appended
  hJunk,        \* number of characters appended outside the grammar
  hResult,      \* "none" before the call, then the boolean returned
  \* ---- factor resolver (extract_verify_factor, verify_factor) ----
  fpc,             \* where the run stands: the next call to be made
  control,         \* what is_control answered (PyNone before the call)
  factor,          \* verify_factor: the current candidate
  failed_factors,  \* verify_factor: the candidates evaluated so far
  loop_count,      \* verify_factor: rounds started
  satisfied,       \* verify_factor: the flag of the while loop
  result,          \* verify_factor: the Series to be returned
  synonyms,        \* verify_factor: the synonyms still to be tried in this round
  pending,         \* validate_binding_protein waiting for a picker's answer
  verified_object, \* what extract_verify_factor returns
  returned_by,     \* the statement verify_factor returned from
  round_log,       \* what the current round of verify_factor has done so far
  candidate_log,   \* the calls that gave a candidate: extract_factor, then
                   \* each factor_recheck with the list it was passed
  calls,           \* number of calls made to each oracle in this run
  \* ---- ontology resolver (meta_extract_ontologies, verify_ontology) ----
  opc,              \* where the resolution stands: the next step to be made
  sample,           \* the position of the sample in the batch
  extracted,        \* the four candidate strings of the sample
  completed_output, \* verify_ontology: the four slots (validated, completed_output)
  okey,             \* verify_ontology: position of the retry loop in KEYS
  fuzzy_indexes,    \* the three fuzzy indexes, loaded once for the batch
  validated_object, \* what extract_verify_ontology returns
  early,            \* verify_ontology returned straight after the first waterfall
  lookups,          \* the <<tier, slot>> pairs that read an index for this sample
  alt_calls,        \* per slot, the calls of generate_alternate_names
  alt_runs,         \* per slot, the alternates handed to process_ontology
  alt_log,          \* the retry of the slot handled last: the names returned,
                    \* how the loop over them ended, the slots and lookups before
  \* ---- one fuzzy index under fuzzy_match ----
  ft_pc,            \* "off" | "lookup"
  ft_index,         \* the index, as the calls made so far left it
  ft_before,        \* the index as the last call found it
  ft_term,          \* the term of the last call
  ft_matches,       \* what the last call returned (None for no match)
  ft_count,         \* the calls made
  \* one call of collapse_ontology_terms
  cl_pc,            \* "call", "returned", or "off"
  cl_entries,       \* the entries the call is given
  cl_collapsed,     \* the list it returns
  \* one batch run of meta_extract_factors or meta_extract_factors_and_ontologies
  b_pc,             \* "load", "next_id", "factor", "ontology", "combine",
                    \* "returned", "raised", or "off"
  b_fn,             \* the batch function that runs
  b_load,           \* what loading the mappings and the reference data does
  b_ids,            \* for every identifier of the input, its files on disk
  b_i,              \* the position of the identifier the loop is at
  b_factor,         \* extracted_factor of the current identifier
  b_ontology,       \* extracted_ontology of the current identifier
  b_results,        \* results
  b_done,           \* what was done for each identifier the loop has visited
  \* one call of validate_chromatin_remodelers
  cr_pc,            \* "call", "returned", or "off"
  cr_matches,       \* the gene-table rows the call is given
  cr_filtered,      \* the rows it returns
  \* ---- process_data ----
  pd_pc,            \* the step process_data is about to make
  raw,              \* the downloaded files present in the two unparsed directories
  raw_at_start,     \* the downloaded files present when process_data started
  parsed,           \* the downloaded files whose parsed output is present
  gene_ids,         \* GEOMetaX/gene_ids.npy is present
  error_occured     \* process_data: the flag of the same name

histVars == <<hpc, mark, hTriples, hJunk, hResult>>

factorVars == <<fpc, control, factor, failed_factors, loop_count, satisfied, result,
                synonyms, pending, verified_object, returned_by, round_log,
                candidate_log, calls>>

ontVars == <<opc, sample, extracted, completed_output, okey, fuzzy_indexes,
             validated_object, early, lookups, alt_calls, alt_runs, alt_log>>

fuzzVars == <<ft_pc, ft_index, ft_before, ft_term, ft_matches, ft_count>>

collapseVars == <<cl_pc, cl_entries, cl_collapsed>>

batchVars == <<b_pc, b_fn, b_load, b_ids, b_i, b_factor, b_ontology, b_results,
               b_done>>

filterVars == <<cr_pc, cr_matches, cr_filtered>>

processVars == <<pd_pc, raw, raw_at_start, parsed, gene_ids, error_occured>>

vars == <<histVars, factorVars, ontVars, fuzzVars, collapseVars, batchVars,
          filterVars, processVars>>

\* what the actions of one part leave alone
notHist ==
  <<factorVars, ontVars, fuzzVars, collapseVars, batchVars, filterVars,
    processVars>>
notFactor ==
  <<histVars, ontVars, fuzzVars, collapseVars, batchVars, filterVars,
    processVars>>
notOnt ==
  <<histVars, factorVars, fuzzVars, collapseVars, batchVars, filterVars,
    processVars>>
notFuzz ==
  <<histVars, factorVars, ontVars, collapseVars, batchVars, filterVars,
    processVars>>
notCollapse ==
  <<histVars, factorVars, ontVars, fuzzVars, batchVars, filterVars,
    processVars>>
notBatch ==
  <<histVars, factorVars, ontVars, fuzzVars, collapseVars, filterVars,
    processVars>>
notFilter ==
  <<histVars, factorVars, ontVars, fuzzVars, collapseVars, batchVars,
    processVars>>
notProcess == <<histVars, factorVars, ontVars, fuzzVars, collapseVars, batchVars, filterVars>>

(***************************************************************************)
(* Characters                                                              *)
(***************************************************************************)
LowerLetters ==
  <<"a","b","c","d","e","f","g","h","i","j","k","l","m",
    "n","o","p","q","r","s","t","u","v","w","x","y","z">>

UpperLetters ==
  <<"A","B","C","D","E","F","G","H","I","J","K","L","M",
    "N","O","P","Q","R","S","T","U","V","W","X","Y","Z">>

Digits == {"0","1","2","3","4","5","6","7","8","9"}

IndexIn(c, letters) == CHOOSE i \in 1..Len(letters) : letters[i] = c

\* str.lower() and str.upper(), letter by letter
ToLower == [c \in {UpperLetters[i] : i \in 1..26} |-> LowerLetters[IndexIn(c, UpperLetters)]]
ToUpper == [c \in {LowerLetters[i] : i \in 1..26} |-> UpperLetters[IndexIn(c, LowerLetters)]]

Lower(c) == IF c \in DOMAIN ToLower THEN ToLower[c] ELSE c

Upper(c) == IF c \in DOMAIN ToUpper THEN ToUpper[c] ELSE c

LowerStr(s) == [i \in 1..Len(s) |-> Lower(s[i])]

\* s[i:] of Python, with i counted from 1
From(s, i) == SubSeq(s, i, Len(s))

\* s.startswith(p)
StartsWith(s, p) == Len(p) <= Len(s) /\ SubSeq(s, 1, Len(p)) = p

(***************************************************************************)
(* validate_histone_mark                                                   *)
(***************************************************************************)
HISTONE_VARIANTS ==
  {
    <<"H","1">>, <<"H","1",".","0">>, <<"H","1",".","1">>, <<"H","1",".","2">>,
    <<"H","1",".","3">>, <<"H","1",".","4">>, <<"H","1",".","5">>, <<"H","1",".","6">>,
    <<"H","1",".","7">>, <<"H","1","t","s">>, <<"H","1","F","N","T">>, <<"H","1","t">>,
    <<"H","1",".","8">>, <<"H","1","o","o">>, <<"H","1","F","o","o">>, <<"H","1",".","9">>,
    <<"H","1",".","1","0">>, <<"H","1","X">>, <<"H","2","A">>, <<"H","2","A",".","1">>,
    <<"H","2","A",".","2">>, <<"H","2","A",".","X">>, <<"H","2","A",".","Z">>,
    <<"m","H","2","A">>, <<"m","a","c","r","o","H","2","a">>, <<"H","2","A",".","B">>,
    <<"H","2","A",".","L">>, <<"H","2","A",".","P">>, <<"H","2","A",".","J">>,
    <<"H","2","A",".","L","a","p","1">>, <<"H","2","A",".","B","b","d">>, <<"H","2","B">>,
    <<"H","2","B",".","1">>, <<"H","2","B",".","W">>, <<"H","2","B",".","Z">>,
    <<"H","2","B",".","K">>, <<"H","2","B",".","N">>, <<"H","2","B","L","1">>, <<"H","3">>,
    <<"H","3",".","1">>, <<"H","3",".","2">>, <<"H","3",".","3">>, <<"H","3",".","4">>,
    <<"H","3",".","5">>, <<"H","3",".","X">>, <<"H","3",".","Y">>, <<"H","3",".","6">>,
    <<"C","E","N","P","A">>, <<"H","3",".","7">>, <<"H","3",".","8">>, <<"H","3","T">>,
    <<"H","4">>
  }

VALID_PTMS ==
  [K |-> {<<"a","c">>, <<"a","r","1">>, <<"b","i","o">>, <<"b","u","t">>, <<"c","r">>,
          <<"f","o","r">>, <<"h","i","b">>, <<"m","a","l">>, <<"m","e","1">>,
          <<"m","e","2">>, <<"m","e","3">>, <<"o","h">>, <<"s","u">>, <<"u","b">>,
          <<"g","l">>, <<"p","h">>, <<"g","t">>},
   R |-> {<<"a","r","1">>, <<"c","i","t">>, <<"m","e","1">>, <<"m","e","2">>, <<"m","e","3">>},
   S |-> {<<"p","h">>, <<"o","g">>, <<"f","a">>, <<"p","a","l">>, <<"a","m","p">>},
   T |-> {<<"p","h">>, <<"o","g">>, <<"f","a">>, <<"a","m","p">>},
   Y |-> {<<"p","h">>, <<"o","x">>, <<"a","m","p">>, <<"s","u","l">>},
   C |-> {<<"a","r","1">>, <<"g","t">>, <<"o","x">>, <<"f","a">>, <<"p","a","l">>,
          <<"n","i","t">>, <<"p","t">>},
   E |-> {<<"a","r","1">>, <<"i","s","o">>, <<"p","y","r">>},
   D |-> {<<"a","r","1">>, <<"i","s","o">>},
   P |-> {<<"o","h">>},
   M |-> {<<"o","x">>},
   W |-> {<<"o","x">>, <<"p","h">>},
   G |-> {<<"f","a">>, <<"m","y","r">>},
   N |-> {<<"f","a">>, <<"p","a","l">>},
   Q |-> {<<"p","y","r">>} ]

SYMMETRY_SUFFIXES == {"s", "a"}

\* the longest element of a non-empty set of strings of which at most one has
\* each length (the prefixes of one string): sorted(..., key=len, reverse=True)[0]
Longest(S) == CHOOSE p \in S : \A q \in S : Len(q) <= Len(p)

\* Step 1: the variants the mark starts with; the loop takes the longest
VariantPrefixes(m) == {v \in HISTONE_VARIANTS : StartsWith(m, v)}

\* re.match(r'\d+', s[i:]): the length of the run of digits that starts at i
RECURSIVE DigitRun(_, _)
DigitRun(s, i) ==
  IF i <= Len(s) /\ s[i] \in Digits THEN 1 + DigitRun(s, i + 1) ELSE 0

\* the while loop over mod_part; i is the position of the next character
RECURSIVE ModLoop(_, _)
ModLoop(mod_part, i) ==
  IF i > Len(mod_part) THEN TRUE
  ELSE
    LET residue == Upper(mod_part[i]) IN
    IF residue \notin DOMAIN VALID_PTMS THEN FALSE
    ELSE
      LET nd == DigitRun(mod_part, i + 1) IN
      IF nd = 0 THEN FALSE
      ELSE
        LET j    == i + 1 + nd
            rest == LowerStr(From(mod_part, j))
            ptms == {p \in VALID_PTMS[residue] : StartsWith(rest, p)}
        IN
        IF ptms = {} THEN FALSE
        ELSE
          LET k == j + Len(Longest(ptms)) IN
          IF k <= Len(mod_part) /\ mod_part[k] \in SYMMETRY_SUFFIXES
          THEN ModLoop(mod_part, k + 1)
          ELSE ModLoop(mod_part, k)

validate_histone_mark(m) ==
  IF VariantPrefixes(m) = {} THEN FALSE
  ELSE LET histone  == Longest(VariantPrefixes(m))
           mod_part == From(m, Len(histone) + 1)
       IN ModLoop(mod_part, 1)

(***************************************************************************)
(* The grammar of histone codes, stated on its own: a variant followed by  *)
(* one or more triples residue, position, modification, each optionally    *)
(* followed by a symmetry suffix.                                          *)
(***************************************************************************)
\* the lengths n such that s[i..i+n-1] is one triple (with or without suffix)
TripleLengths(s, i) ==
  IF i > Len(s) \/ Upper(s[i]) \notin DOMAIN VALID_PTMS THEN {}
  ELSE
    LET residue == Upper(s[i]) IN
    UNION { UNION { LET e == i + 1 + nd + Len(p) IN
                    {e - i} \cup
                    (IF e <= Len(s) /\ s[e] \in SYMMETRY_SUFFIXES THEN {e - i + 1} ELSE {})
                  : p \in {q \in VALID_PTMS[residue] :
                             StartsWith(LowerStr(From(s, i + 1 + nd)), q)} }
          : nd \in 1..DigitRun(s, i + 1) }

\* s[i..] is a sequence of one or more triples
RECURSIVE TriplesPlus(_, _)
TriplesPlus(s, i) ==
  \E n \in TripleLengths(s, i) :
     i + n = Len(s) + 1 \/ TriplesPlus(s, i + n)

InGrammar(m) ==
  \E v \in HISTONE_VARIANTS : StartsWith(m, v) /\ TriplesPlus(m, Len(v) + 1)

(***************************************************************************)
(* Histone specification: build a string and validate it                   *)
(***************************************************************************)
MaxTriples == 2
MaxJunk == 1

\* what the builder draws from
GenVariants ==
  { <<"H","3">>, <<"H","3","T">>, <<"H","3",".","3">>, <<"H","4">>,
    <<"H","2","A">>, <<"H","2","A",".","Z">>, <<"H","1">>, <<"H","1","t">>,
    <<"C","E","N","P","A">> }
GenResidues == {"K", "T", "S", "R"}
GenPositions == { <<"4">>, <<"2","7">> }
GenMods(residue) ==
  IF residue = "K" THEN { <<"a","c">>, <<"m","e","3">>, <<"p","h">> }
  ELSE { p \in VALID_PTMS[residue] : p \in { <<"p","h">>, <<"m","e","2">>, <<"a","m","p">> } }
GenSuffixes == { <<>>, <<"s">> }
JunkChars == {"x", "K", "4", "a", "."}

HistStart(pc0) ==
  /\ hpc = pc0
  /\ mark = <<>>
  /\ hTriples = 0
  /\ hJunk = 0
  /\ hResult = "none"

HChooseVariant ==
  /\ hpc = "variant"
  /\ \E v \in GenVariants : mark' = v
  /\ hpc' = "build"
  /\ UNCHANGED <<hTriples, hJunk, hResult, notHist>>

HAppendTriple ==
  /\ hpc = "build"
  /\ hJunk = 0
  /\ hTriples < MaxTriples
  /\ \E residue \in GenResidues, pos \in GenPositions, suf \in GenSuffixes :
       \E ptm \in GenMods(residue) :
         mark' = mark \o <<residue>> \o pos \o ptm \o suf
  /\ hTriples' = hTriples + 1
  /\ UNCHANGED <<hpc, hJunk, hResult, notHist>>

HAppendJunk ==
  /\ hpc = "build"
  /\ hJunk < MaxJunk
  /\ \E c \in JunkChars : mark' = mark \o <<c>>
  /\ hJunk' = hJunk + 1
  /\ UNCHANGED <<hpc, hTriples, hResult, notHist>>

HValidate ==
  /\ hpc = "build"
  /\ hResult' = validate_histone_mark(mark)
  /\ hpc' = "done"
  /\ UNCHANGED <<mark, hTriples, hJunk, notHist>>

HNext == HChooseVariant \/ HAppendTriple \/ HAppendJunk \/ HValidate


(***************************************************************************)
(* Normalisers                                                             *)
(***************************************************************************)
\* Python's None where a string is expected
PyNone == <<"<None>">>

\* \w of the regular expressions
IsWordChar(c) ==
  \/ c \in DOMAIN ToUpper
  \/ c \in DOMAIN ToLower
  \/ c \in Digits
  \/ c = "_"

\* \s of the regular expressions, and the separators of str.split()
IsSpace(c) == c \in {" ", "\t", "\n"}

RECURSIVE KeepWord(_)
KeepWord(s) ==
  IF s = <<>> THEN <<>>
  ELSE IF IsWordChar(Head(s)) THEN <<Head(s)>> \o KeepWord(Tail(s))
  ELSE KeepWord(Tail(s))

\* re.sub(r'[^\w]', '', input_string.lower()), '' for None
clean_input(input_string) ==
  IF input_string = PyNone THEN <<>> ELSE KeepWord(LowerStr(input_string))

\* str.split(sep) for a one-character separator
RECURSIVE SplitOn(_, _, _)
SplitOn(s, sep, cur) ==
  IF s = <<>> THEN <<cur>>
  ELSE IF Head(s) = sep THEN <<cur>> \o SplitOn(Tail(s), sep, <<>>)
  ELSE SplitOn(Tail(s), sep, Append(cur, Head(s)))

Split(s, sep) == SplitOn(s, sep, <<>>)

\* str.strip()
RECURSIVE LStrip(_)
LStrip(s) == IF s # <<>> /\ IsSpace(Head(s)) THEN LStrip(Tail(s)) ELSE s

RECURSIVE RStrip(_)
RStrip(s) ==
  IF s # <<>> /\ IsSpace(s[Len(s)]) THEN RStrip(SubSeq(s, 1, Len(s) - 1)) ELSE s

Strip(s) == RStrip(LStrip(s))

\* the elements of a sequence, as a set
Range(q) == {q[i] : i \in 1..Len(q)}

\* [x for x in q if x in keep], for a set of positions
RECURSIVE FilterRows(_, _, _)
FilterRows(q, keep, i) ==
  IF i > Len(q) THEN <<>>
  ELSE (IF i \in keep THEN <<q[i]>> ELSE <<>>) \o FilterRows(q, keep, i + 1)

(***************************************************************************)
(* Reference tables of the factor resolver                                 *)
(***************************************************************************)
s_ESR1 == <<"E","S","R","1">>
s_ESR2 == <<"E","S","R","2">>
s_ER == <<"E","R">>
s_BRG1 == <<"B","R","G","1">>
s_SNF2 == <<"S","N","F","2">>
s_BAF == <<"B","A","F">>
s_POLR2A == <<"P","O","L","R","2","A">>
s_POLR2B == <<"P","O","L","R","2","B">>
s_POL2 == <<"P","O","L","2">>
s_XYZ == <<"X","Y","Z">>
s_None == <<"N","o","n","e">>
s_H3K4me3 == <<"H","3","K","4","m","e","3">>
s_True == <<"T","r","u","e">>
s_False == <<"F","a","l","s","e">>
\* an answer made of punctuation only
s_Dash == <<"-">>

\* gene_info.csv: Symbol, and Synonyms separated by "|" ("-" when there are none)
genes_df ==
  << [Symbol |-> s_ESR1,   Synonyms |-> <<"E","R","|","N","R","3","A","1">>],
     [Symbol |-> s_ESR2,   Synonyms |-> <<"E","R","|","E","r","b">>],
     [Symbol |-> s_BRG1,   Synonyms |-> <<"B","A","F","|","S","M","A","R","C","A","4">>],
     [Symbol |-> s_SNF2,   Synonyms |-> <<"B","A","F","|","S","W","I","2">>],
     [Symbol |-> s_POLR2A, Synonyms |-> <<"P","O","L","2","|","R","P","B","1">>],
     [Symbol |-> s_POLR2B, Synonyms |-> <<"P","O","L","2">>],
     [Symbol |-> <<"H","C","G","1">>,   Synonyms |-> <<"H","3","K","4","m","e","3">>],
     [Symbol |-> <<"H","C","G","2">>,   Synonyms |-> <<"H","3","K","4","m","e","3">>],
     [Symbol |-> <<"L","O","C","1">>,   Synonyms |-> <<"-">>] >>

\* Homo_sapiens_TF.csv: the column Symbol
TF_df == [Symbol |-> <<s_ESR1, s_ESR2>>]

\* Homo_sapiens_CR.csv as the downloader writes it: the columns
\* chromatin_remodeler and synonyms (synonyms separated by ", ")
chromatin_df ==
  [chromatin_remodeler |-> << <<"S","M","A","R","C","A","4">>, <<"I","N","O","8","0">> >>,
   synonyms            |-> << <<"B","R","G","1",","," ","S","N","F","2">>, <<"I","N","O","C","1">> >>]

\* DataFrame.get(column, default)
DataFrameGet(df, column) == IF column \in DOMAIN df THEN df[column] ELSE <<>>

(***************************************************************************)
(* match_human_gene and the filters of validate_binding_protein            *)
(***************************************************************************)
\* synonym_match: cleaned_factor in map(clean_input, synonyms_str.split("|"))
synonym_match(synonyms_str, cleaned_factor) ==
  cleaned_factor \in {clean_input(x) : x \in Range(Split(synonyms_str, "|"))}

match_human_gene(df, f) ==
  LET cleaned_factor == clean_input(f) IN
  FilterRows(df,
             {i \in 1..Len(df) :
                \/ clean_input(df[i].Symbol) = cleaned_factor
                \/ synonym_match(df[i].Synonyms, cleaned_factor)},
             1)

validate_transcription_factor(matching_factors, TF_DB) ==
  LET valid_symbols == Range(TF_DB.Symbol) IN
  FilterRows(matching_factors,
             {i \in 1..Len(matching_factors) : matching_factors[i].Symbol \in valid_symbols},
             1)

validate_chromatin_remodelers(matching_factors, CR_db) ==
  LET valid_symbols ==
        {clean_input(symbol) : symbol \in Range(DataFrameGet(CR_db, "chromatin remodeling"))}
        \cup UNION {{clean_input(Strip(synonym)) : synonym \in Range(Split(syns, ","))}
                    : syns \in Range(DataFrameGet(CR_db, "synonyms"))}
  IN FilterRows(matching_factors,
                {i \in 1..Len(matching_factors) :
                   clean_input(matching_factors[i].Symbol) \in valid_symbols},
                1)


(***************************************************************************)
(* validate_binding_protein                                                *)
(***************************************************************************)
\* pd.Series(dtype='object'), pd.Series("none"), pd.Series(row)
EmptySeries == [kind |-> "empty"]
NoneSeries == [kind |-> "none"]
RowSeries(row) == [kind |-> "row", row |-> row]

\* an oracle call that raised
Raised == <<"<raise>">>

NoPending == [picker |-> "none"]

\* a verify_factor without the histone check of lines 1491-1496
histone_check_never(f) == FALSE

\* validate_histone_mark called on a value that may be None: mark.startswith
\* raises on None, and every caller catches the exception and goes on
histone_check(f) == f # PyNone /\ validate_histone_mark(f)

\* a validate_binding_protein that hands every ambiguous lookup to gene_picker
vbp_start_gene_picker_first(f, matches) ==
  IF Len(matches) = 1
  THEN [ask |-> "none", result |-> RowSeries(matches[1]), satisfied |-> TRUE]
  ELSE [ask |-> "gene_picker", offered |-> matches]

\* validate_binding_protein up to the first picker call: either the pair
\* (result, satisfied) it returns, or the picker it has to ask and the rows
\* it offers
vbp_start(f, matches) ==
  IF Len(matches) = 1
  THEN [ask |-> "none", result |-> RowSeries(matches[1]), satisfied |-> TRUE]
  ELSE IF Len(matches) > 1
  THEN
    LET filtered_matches_tf == validate_transcription_factor(matches, TF_df) IN
    IF filtered_matches_tf # <<>>
    THEN IF Len(filtered_matches_tf) = 1
         THEN [ask |-> "none", result |-> RowSeries(filtered_matches_tf[1]),
               satisfied |-> TRUE]
         ELSE [ask |-> "tf_picker", offered |-> filtered_matches_tf]
    ELSE
      LET filtered_matches_cr == validate_chromatin_remodelers(matches, chromatin_df) IN
      IF filtered_matches_cr # <<>>
      THEN IF Len(filtered_matches_cr) = 1
           THEN [ask |-> "none", result |-> RowSeries(filtered_matches_cr[1]),
                 satisfied |-> TRUE]
           ELSE [ask |-> "cr_picker", offered |-> filtered_matches_cr]
      ELSE IF f = PyNone
           THEN [ask |-> "none", result |-> NoneSeries, satisfied |-> FALSE]
           ELSE IF validate_histone_mark(f)
           THEN [ask |-> "none", result |-> RowSeries([Symbol |-> f]), satisfied |-> TRUE]
           ELSE [ask |-> "gene_picker", offered |-> matches]
  ELSE [ask |-> "none", result |-> NoneSeries, satisfied |-> FALSE]

\* the rows of the offered list the picker's answer selects: tf_picker and
\* cr_picker by equality of Symbol, gene_picker by equality of clean_input
\* a selection that looks the picker's answer up in the whole gene table
selected_rows_from_table(picker, offered, selected_factor) ==
  FilterRows(genes_df,
             {i \in 1..Len(genes_df) : genes_df[i].Symbol = selected_factor},
             1)

selected_rows(picker, offered, selected_factor) ==
  FilterRows(offered,
             {i \in 1..Len(offered) :
                IF picker = "gene_picker"
                THEN clean_input(offered[i].Symbol) = clean_input(selected_factor)
                ELSE offered[i].Symbol = selected_factor},
             1)

\* validate_binding_protein from the picker's answer on
vbp_finish(picker, offered, selected_factor) ==
  IF selected_factor = Raised
  THEN [result |-> NoneSeries, satisfied |-> FALSE]
  ELSE LET selected_result == selected_rows(picker, offered, selected_factor) IN
       IF selected_result # <<>>
       THEN [result |-> RowSeries(selected_result[1]), satisfied |-> TRUE]
       ELSE [result |-> NoneSeries, satisfied |-> FALSE]

(***************************************************************************)
(* extract_verify_factor and verify_factor                                 *)
(***************************************************************************)
max_loops == 3

\* bounds of the oracles' answers
MaxSyn == 2

ControlAnswers == {s_True, s_False, <<"t","r","u","e">>}
FactorCandidates == {s_ESR1, s_ER, s_BAF, s_POL2, s_H3K4me3, s_None, s_XYZ}
SynonymTexts == {s_ESR1, s_POL2, s_H3K4me3, s_XYZ}
\* what extract_factor can answer: the candidates, or punctuation only
ExtractedCandidates == FactorCandidates \cup {s_Dash}
PickerAnswers == {s_ESR1, s_ESR2, s_BRG1, s_POLR2A, <<"p","o","l","r","2","a">>, s_XYZ}

\* the lists eval(generate_synonyms(factor)) can give
SynonymLists == UNION {[1..n -> SynonymTexts] : n \in 0..MaxSyn}

\* every text verify_factor can be given as a candidate or as a synonym
FactorTexts == FactorCandidates \cup SynonymTexts \cup {PyNone, s_Dash}

\* the calls verify_factor makes on a text, tabulated: the histone check, the
\* gene lookup, and validate_binding_protein on the rows the lookup returned
histone_of == [f \in FactorTexts |-> histone_check(f)]
matches_of == [f \in FactorTexts |-> match_human_gene(genes_df, f)]
vbp_of == [f \in FactorTexts |-> vbp_start(f, matches_of[f])]

NoCalls ==
  [is_control |-> 0, extract_factor |-> 0, tf_picker |-> 0, cr_picker |-> 0,
   gene_picker |-> 0, generate_synonyms |-> 0, factor_recheck |-> 0]

Called(op) == [calls EXCEPT ![op] = @ + 1]

Running == [kind |-> "running"]
EmptyObject == [kind |-> "empty"]
FactorObject(symbol) == [kind |-> "factor", extracted_factor |-> symbol]

\* one gene-table lookup of a round: the text looked up, the picker that
\* validate_binding_protein went on to ask, and whether it was satisfied
Lookup(text, picker, sat) == [text |-> text, picker |-> picker, sat |-> sat]

\* a round that has looked up nothing yet; base is the call count it began with
RoundStart(base) == [looked |-> <<>>, asked |-> 0, answer |-> <<>>, base |-> base]

LookedUp(log, text) ==
  LET v == vbp_of[text] IN
  [log EXCEPT !.looked =
     Append(@, IF matches_of[text] = <<>> THEN Lookup(text, "none", FALSE)
               ELSE Lookup(text, v.ask, v.ask = "none" /\ v.satisfied))]

Answered(log, sat) ==
  [log EXCEPT !.looked = [@ EXCEPT ![Len(@)] = Lookup(@.text, @.picker, sat)]]

\* a call of extract_factor (no list) or of factor_recheck (the list of failed
\* factors it is passed) and its answer
CandidateCall(excluded, answer) == [excluded |-> excluded, answer |-> answer]

FactorStart(pc0) ==
  /\ fpc = pc0
  /\ control = PyNone
  /\ factor = PyNone
  /\ failed_factors = <<>>
  /\ loop_count = 0
  /\ satisfied = FALSE
  /\ result = EmptySeries
  /\ synonyms = <<>>
  /\ pending = NoPending
  /\ verified_object = Running
  /\ returned_by = "none"
  /\ round_log = RoundStart(NoCalls)
  /\ candidate_log = <<>>
  /\ calls = NoCalls

is_true_case_sensitive(answer) == Strip(answer) = s_True

\* control.strip().lower() == "true"
is_true(answer) == LowerStr(Strip(answer)) = LowerStr(s_True)

loop_continues_one_more(sat, count) == ~sat /\ count <= max_loops

\* the condition of the while loop
loop_continues(sat, count) == ~sat /\ count < max_loops

\* a verify_factor that remembers the latest candidate only
failed_with_latest_only(failed, f) == <<f>>

\* failed_factors.append(factor)
failed_with(failed, f) == Append(failed, f)

\* where verify_factor goes once the candidate itself has been validated
AfterSynonyms(sat) == IF ~sat THEN "factor_recheck" ELSE "while"

\* a verify_factor that asks for synonyms whether or not it is satisfied
AfterFactor_always_synonyms(sat, f) ==
  IF f # s_None THEN "generate_synonyms" ELSE AfterSynonyms(sat)

\* a verify_factor that goes to the recheck without asking for synonyms
AfterFactor_never_synonyms(sat, f) == AfterSynonyms(sat)

AfterFactor(sat, f) == IF ~sat /\ f # s_None THEN "generate_synonyms" ELSE AfterSynonyms(sat)

\* extract_verify_factor, lines 1552-1557: the control check
FIsControl ==
  /\ fpc = "is_control"
  /\ \E answer \in ControlAnswers \cup {Raised} :
       /\ control' = answer
       /\ IF answer # Raised /\ is_true(answer)
          THEN /\ verified_object' = EmptyObject
               /\ fpc' = "done"
          ELSE /\ verified_object' = verified_object
               /\ fpc' = "extract_factor"
  /\ calls' = Called("is_control")
  /\ UNCHANGED <<factor, failed_factors, loop_count, satisfied, result, synonyms,
                 pending, returned_by, round_log, candidate_log, notFactor>>

\* extract_verify_factor, lines 1559-1566, and the start of verify_factor
FExtractFactor ==
  /\ fpc = "extract_factor"
  /\ \E answer \in ExtractedCandidates \cup {Raised} :
       /\ IF answer = Raised
          THEN /\ verified_object' = EmptyObject
               /\ fpc' = "done"
               /\ factor' = factor
          ELSE /\ factor' = answer
               /\ fpc' = "while"
               /\ verified_object' = verified_object
       /\ candidate_log' = <<CandidateCall(<<>>, answer)>>
  /\ calls' = Called("extract_factor")
  /\ failed_factors' = <<>>
  /\ result' = EmptySeries
  /\ loop_count' = 0
  /\ satisfied' = FALSE
  /\ UNCHANGED <<control, synonyms, pending, returned_by, round_log, notFactor>>

\* verify_factor: the test of the while loop and the round up to its first
\* oracle call (histone check, gene lookup, validate_binding_protein)
FWhile ==
  /\ fpc = "while"
  /\ IF ~loop_continues(satisfied, loop_count)
     THEN /\ fpc' = "return"
          /\ returned_by' = "loop_end"
          /\ UNCHANGED <<loop_count, failed_factors, result, satisfied, pending,
                         round_log>>
     ELSE
       /\ loop_count' = loop_count + 1
       /\ failed_factors' = failed_with(failed_factors, factor)
       /\ IF histone_of[factor]
          THEN /\ result' = RowSeries([Symbol |-> factor])
               /\ fpc' = "return"
               /\ returned_by' = "histone"
               /\ round_log' = RoundStart(calls)
               /\ UNCHANGED <<satisfied, pending>>
          ELSE
            /\ returned_by' = returned_by
            /\ round_log' = IF factor # s_None
                            THEN LookedUp(RoundStart(calls), factor)
                            ELSE RoundStart(calls)
            /\ LET matches == IF factor # s_None THEN matches_of[factor] ELSE <<>> IN
               IF matches # <<>>
               THEN LET v == vbp_of[factor] IN
                    IF v.ask = "none"
                    THEN /\ result' = v.result
                         /\ satisfied' = v.satisfied
                         /\ pending' = pending
                         /\ fpc' = AfterFactor(v.satisfied, factor)
                    ELSE /\ pending' = [picker |-> v.ask, offered |-> v.offered,
                                        who |-> "factor"]
                         /\ fpc' = "picker"
                         /\ UNCHANGED <<result, satisfied>>
               ELSE /\ fpc' = AfterFactor(satisfied, factor)
                    /\ UNCHANGED <<result, satisfied, pending>>
  /\ UNCHANGED <<control, factor, synonyms, verified_object, calls, candidate_log, notFactor>>

\* the picker call of validate_binding_protein and the rest of that function
Picker(name) ==
  /\ fpc = "picker"
  /\ pending.picker = name
  /\ \E answer \in PickerAnswers \cup {Raised} :
       LET v == vbp_finish(name, pending.offered, answer) IN
       /\ result' = v.result
       /\ satisfied' = v.satisfied
       /\ fpc' = IF pending.who = "factor" THEN AfterFactor(v.satisfied, factor)
                 ELSE "synonym_loop"
       /\ round_log' = Answered(round_log, v.satisfied)
  /\ pending' = NoPending
  /\ calls' = Called(name)
  /\ UNCHANGED <<control, factor, failed_factors, loop_count, synonyms,
                 verified_object, returned_by, candidate_log, notFactor>>

FTfPicker == Picker("tf_picker")
FCrPicker == Picker("cr_picker")
FGenePicker == Picker("gene_picker")

\* verify_factor, lines 1510-1516: generate_synonyms and eval
FGenerateSynonyms ==
  /\ fpc = "generate_synonyms"
  /\ \E answer \in SynonymLists \cup {Raised} :
       synonyms' = IF answer = Raised THEN <<>> ELSE answer
  /\ round_log' = [round_log EXCEPT !.asked = @ + 1, !.answer = synonyms']
  /\ fpc' = "synonym_loop"
  /\ calls' = Called("generate_synonyms")
  /\ UNCHANGED <<control, factor, failed_factors, loop_count, satisfied, result,
                 pending, verified_object, returned_by, candidate_log, notFactor>>

\* verify_factor, lines 1518-1526: one iteration of the loop over the synonyms
FSynonymLoop ==
  /\ fpc = "synonym_loop"
  /\ IF synonyms = <<>> \/ satisfied
     THEN /\ fpc' = AfterSynonyms(satisfied)
          /\ synonyms' = <<>>
          /\ UNCHANGED <<result, satisfied, pending, round_log>>
     ELSE
       LET synonym == Head(synonyms)
           syn_matches == matches_of[synonym]
       IN
       /\ synonyms' = Tail(synonyms)
       /\ round_log' = LookedUp(round_log, synonym)
       /\ IF syn_matches # <<>>
          THEN LET v == vbp_of[synonym] IN
               IF v.ask = "none"
               THEN /\ result' = v.result
                    /\ satisfied' = v.satisfied
                    /\ UNCHANGED <<pending, fpc>>
               ELSE /\ pending' = [picker |-> v.ask, offered |-> v.offered,
                                   who |-> "synonym"]
                    /\ fpc' = "picker"
                    /\ UNCHANGED <<result, satisfied>>
          ELSE UNCHANGED <<result, satisfied, pending, fpc>>
  /\ UNCHANGED <<control, factor, failed_factors, loop_count, verified_object, calls,
                 returned_by, candidate_log, notFactor>>

\* verify_factor, lines 1528-1535: factor_recheck
FRecheck ==
  /\ fpc = "factor_recheck"
  /\ \E answer \in FactorCandidates \cup {Raised} :
       /\ IF answer = Raised
          THEN /\ fpc' = "return"
               /\ returned_by' = "recheck_raised"
               /\ UNCHANGED <<factor, satisfied>>
          ELSE /\ factor' = answer
               /\ satisfied' = FALSE
               /\ fpc' = "while"
               /\ returned_by' = returned_by
       /\ candidate_log' = Append(candidate_log, CandidateCall(failed_factors, answer))
  /\ calls' = Called("factor_recheck")
  /\ UNCHANGED <<control, failed_factors, loop_count, result, synonyms, pending,
                 verified_object, round_log, notFactor>>

\* verify_factor returns result; extract_verify_factor, lines 1566-1575
FReturn ==
  /\ fpc = "return"
  /\ verified_object' =
       IF result.kind = "row" /\ result.row.Symbol # <<>>
       THEN FactorObject(result.row.Symbol)
       ELSE EmptyObject
  /\ fpc' = "done"
  /\ UNCHANGED <<control, factor, failed_factors, loop_count, satisfied, result,
                 synonyms, pending, returned_by, round_log, calls, candidate_log, notFactor>>

FNext ==
  \/ FIsControl \/ FExtractFactor \/ FWhile
  \/ FTfPicker \/ FCrPicker \/ FGenePicker
  \/ FGenerateSynonyms \/ FSynonymLoop \/ FRecheck \/ FReturn

(***************************************************************************)
(* Normalisers of the ontology resolver                                    *)
(***************************************************************************)
\* process_string: the stop words removed when remove is true
words_to_remove ==
  {
    <<"c","e","l","l">>, <<"l","i","n","e">>, <<"p","r","i","m","a","r","y">>,
    <<"t","h","e">>, <<"o","f">>, <<"a","n","d">>, <<"o","r">>, <<"b","u","t">>,
    <<"t","i","s","s","u","e">>, <<"c","e","l","l","s">>, <<"h","u","m","a","n">>,
    <<"f","o","r">>, <<"o","r","g","a","n">>, <<"r","e","g","i","o","n">>,
    <<"s","y","s","t","e","m">>, <<"s","a","m","p","l","e">>, <<"a","s","s","a","y">>,
    <<"d","i","s","e","a","s","e">>, <<"t","o">>,
    <<"m","e","a","s","u","r","e","m","e","n","t">>, <<"d","o","w","n">>, <<"u","p">>,
    <<"p","a","r","t">>, <<"l","a","y","e","r">>, <<"m","e","m","b","r","a","n","e">>,
    <<"a","r","e","a">>, <<"t","o">>, <<"l","i","k","e">>,
    <<"r","e","l","a","t","e","d">>, <<"t","y","p","e">>, <<"w","i","t","h">>,
    <<"a","m","o","u","n","t">>, <<"c","o","n","t","a","i","n","i","n","g">>
  }

\* str.split() with no argument: the runs of non-space characters
RECURSIVE SplitWords(_, _)
SplitWords(s, cur) ==
  IF s = <<>> THEN (IF cur = <<>> THEN <<>> ELSE <<cur>>)
  ELSE IF IsSpace(Head(s))
       THEN (IF cur = <<>> THEN <<>> ELSE <<cur>>) \o SplitWords(Tail(s), <<>>)
       ELSE SplitWords(Tail(s), Append(cur, Head(s)))

\* sep.join(words)
RECURSIVE Join(_, _)
Join(words, sep) ==
  IF words = <<>> THEN <<>>
  ELSE IF Len(words) = 1 THEN words[1]
  ELSE words[1] \o sep \o Join(Tail(words), sep)

\* process_string(s, remove): the lookup key of the exact tiers; <<>> stands
\* for both None and '' (the callers test "not term_key")
process_string(s, remove) ==
  IF s = <<>> \/ s = PyNone THEN <<>>
  ELSE
    LET words == SplitWords(s, <<>>)
        cleaned_words == [i \in 1..Len(words) |-> clean_input(words[i])]
        dropped == IF remove THEN words_to_remove ELSE {}
        filtered_words ==
          FilterRows(cleaned_words,
                     {i \in 1..Len(words) :
                        cleaned_words[i] \notin dropped /\ cleaned_words[i] # <<>>},
                     1)
    IN Join(filtered_words, <<>>)

RECURSIVE KeepWordOrSpace(_)
KeepWordOrSpace(s) ==
  IF s = <<>> THEN <<>>
  ELSE IF IsWordChar(Head(s)) \/ IsSpace(Head(s))
       THEN <<Head(s)>> \o KeepWordOrSpace(Tail(s))
       ELSE KeepWordOrSpace(Tail(s))

\* re.sub(r'[^\w\s]', '', input_string.lower())
clean_input_fuzzy(input_string) ==
  IF input_string = PyNone THEN <<>> ELSE KeepWordOrSpace(LowerStr(input_string))

(***************************************************************************)
(* fuzz.token_sort_ratio: the tokens of each string sorted and joined by   *)
(* one space, then the normalised Indel similarity 2*LCS/(len1+len2)       *)
(***************************************************************************)
\* the characters in the order of their code points
CodeOrder ==
  <<" ","0","1","2","3","4","5","6","7","8","9">> \o UpperLetters \o <<"_">> \o LowerLetters

CodeOf == [c \in Range(CodeOrder) |-> IndexIn(c, CodeOrder)]

\* a < b for strings, as Python compares them
RECURSIVE StrLess(_, _)
StrLess(a, b) ==
  IF b = <<>> THEN FALSE
  ELSE IF a = <<>> THEN TRUE
  ELSE IF Head(a) = Head(b) THEN StrLess(Tail(a), Tail(b))
  ELSE CodeOf[Head(a)] < CodeOf[Head(b)]

\* sorted(tokens)
RECURSIVE InsertSorted(_, _)
InsertSorted(w, q) ==
  IF q = <<>> THEN <<w>>
  ELSE IF StrLess(Head(q), w) THEN <<Head(q)>> \o InsertSorted(w, Tail(q))
  ELSE <<w>> \o q

RECURSIVE SortWords(_)
SortWords(q) == IF q = <<>> THEN <<>> ELSE InsertSorted(Head(q), SortWords(Tail(q)))

TokenSort(s) == Join(SortWords(SplitWords(s, <<>>)), <<" ">>)

\* the length of the longest common subsequence, one row of the table at a
\* time: row[j] is the LCS of the characters of a read so far and b[1..j]
RECURSIVE LcsRow(_, _, _, _, _)
LcsRow(prev, c, b, j, left) ==
  IF j > Len(b) THEN <<>>
  ELSE LET diag == IF j = 1 THEN 0 ELSE prev[j - 1]
           here == IF c = b[j] THEN diag + 1
                   ELSE IF prev[j] >= left THEN prev[j] ELSE left
       IN <<here>> \o LcsRow(prev, c, b, j + 1, here)

RECURSIVE LcsRows(_, _, _)
LcsRows(a, b, prev) ==
  IF a = <<>> THEN prev ELSE LcsRows(Tail(a), b, LcsRow(prev, Head(a), b, 1, 0))

Lcs(a, b) ==
  IF b = <<>> THEN 0 ELSE LcsRows(a, b, [j \in 1..Len(b) |-> 0])[Len(b)]

\* token_sort_ratio(term, key) / 100 as the fraction <<numerator, denominator>>
token_sort_ratio(term, key) ==
  LET a == TokenSort(term)
      b == TokenSort(key)
  IN IF Len(a) + Len(b) = 0 THEN <<1, 1>> ELSE <<2 * Lcs(a, b), Len(a) + Len(b)>>

\* comparisons of fractions with positive denominators
FracLess(x, y) == x[1] * y[2] < y[1] * x[2]
\* a comparison that never finds two scores equal
FracNeverEq(x, y) == FALSE

FracEq(x, y) == x[1] * y[2] = y[1] * x[2]

(***************************************************************************)
(* The reference indexes.  An index is a Python dict from a normalised key *)
(* to a list of entries: a sequence of [key, values] rows in insertion     *)
(* order.  The rows are the ones the index builders produce for the        *)
(* classes breast cancer (EFO and MONDO), K562, B cell, cells and liver    *)
(* disease of EFO, lung of Uberon, HeLa and K-562 of Cellosaurus.          *)
(***************************************************************************)
o_NA == <<"N","/","A">>
o_Empty == <<>>
o_HeLa == <<"H","e","L","a">>
o_K562 == <<"K","5","6","2">>
o_Bcells == <<"B","-","c","e","l","l","s">>
o_Bcell == <<"B"," ","c","e","l","l">>
o_LungTissue == <<"l","u","n","g"," ","t","i","s","s","u","e">>
o_Liver == <<"l","i","v","e","r">>
o_LiverType == <<"l","i","v","e","r"," ","t","y","p","e">>
o_BreastCancer == <<"b","r","e","a","s","t"," ","c","a","n","c","e","r">>
o_Unknown == <<"u","n","k","n","o","w","n">>
o_Lung == <<"l","u","n","g">>
o_Nothing == <<"n","o","t","h","i","n","g">>
\* a misspelt tissue: one letter from the organ, two from a disease
o_Trachoea == <<"t","r","a","c","h","o","e","a">>
\* an element of an alternate-names list that is not a string
PyInt == <<"<int>">>

k_breastcancer == <<"b","r","e","a","s","t","c","a","n","c","e","r">>
k_k562 == <<"k","5","6","2">>
k_bcell == <<"b","c","e","l","l">>
k_cells == <<"c","e","l","l","s">>
k_liverdisease == <<"l","i","v","e","r","d","i","s","e","a","s","e">>
k_liver == <<"l","i","v","e","r">>
k_b == <<"b">>
k_lung == <<"l","u","n","g">>
k_hela == <<"h","e","l","a">>
k_trachea == <<"t","r","a","c","h","e","a">>
k_trachoma == <<"t","r","a","c","h","o","m","a">>

Entry(accession, type, official) ==
  [ontology_accession |-> accession, ontology_type |-> type, official_term |-> official]

CellosaurusEntry(accession, id) ==
  [ontology_accession |-> accession, ontology_type |-> "Cellosaurus",
   term |-> id, term_identity |-> "cell_line", official_term |-> id]

e_breast_efo == Entry("EFO_0000305", "EFO", "breast cancer")
e_breast_mondo == Entry("MONDO_0007254", "EFO", "breast cancer")
e_k562 == Entry("EFO_0002067", "EFO", "K562")
e_bcell == Entry("CL_0000236", "EFO", "B cell")
e_cells == Entry("CL_0000000", "EFO", "cells")
e_liver_disease == Entry("EFO_0001421", "EFO", "liver disease")
e_lung == Entry("UBERON_0002048", "Uberon", "lung")
e_trachea == Entry("UBERON_0003126", "Uberon", "trachea")
e_trachoma == Entry("EFO_0007520", "EFO", "trachoma")

Row(key, values) == [key |-> key, values |-> values]

cellosaurus_index ==
  << Row(k_hela, <<CellosaurusEntry("CVCL_0030", "HeLa")>>),
     Row(k_k562, <<CellosaurusEntry("CVCL_0004", "K-562")>>) >>

efo_index ==
  << Row(k_breastcancer, <<e_breast_efo, e_breast_mondo>>),
     Row(k_k562, <<e_k562>>),
     Row(k_bcell, <<e_bcell>>),
     Row(k_cells, <<e_cells>>),
     Row(k_liverdisease, <<e_liver_disease>>),
     Row(k_trachoma, <<e_trachoma>>) >>

uberon_index == << Row(k_lung, <<e_lung>>), Row(k_trachea, <<e_trachea>>) >>

\* the reduced indexes: the same classes keyed with the stop words removed
cellosaurus_reduce_index == cellosaurus_index

efo_reduce_index ==
  << Row(k_breastcancer, <<e_breast_efo, e_breast_mondo>>),
     Row(k_k562, <<e_k562>>),
     Row(k_b, <<e_bcell>>),
     Row(<<>>, <<e_cells>>),
     Row(k_liver, <<e_liver_disease>>),
     Row(k_trachoma, <<e_trachoma>>) >>

uberon_reduce_index == << Row(k_lung, <<e_lung>>), Row(k_trachea, <<e_trachea>>) >>

\* the fuzzy indexes as loaded: build_index_efo and build_index_uberon with
\* fuzzy=True leave out only remove_spaces, which has nothing to remove
cellosaurus_fuzzy == cellosaurus_index
efo_fuzzy == efo_index
uberon_fuzzy == uberon_index

\* term_key in index, index[term_key]
HasKey(index, term_key) == \E i \in 1..Len(index) : index[i].key = term_key
Get(index, term_key) == index[CHOOSE i \in 1..Len(index) : index[i].key = term_key].values

(***************************************************************************)
(* The five-tier waterfall                                                 *)
(***************************************************************************)
KEYS == <<"cell_line", "cell_type", "tissue", "disease">>
KeySet == Range(KEYS)

\* the value None of a slot; the code stores None or a non-empty list
None == <<>>
IsNone(value) == Len(value) = 0

\* the four slots of a fresh validated object
NoSlots == [key \in KeySet |-> None]

\* the texts a slot or an alternate name can carry
OntTexts ==
  {o_NA, o_Empty, o_HeLa, o_K562, o_Bcells, o_Bcell, o_LungTissue, o_Liver,
   o_LiverType, o_BreastCancer, o_Unknown, o_Lung, o_Nothing, o_Trachoea}

\* process_string and clean_input_fuzzy of every text, computed once
term_key_of == [remove \in BOOLEAN |-> [t \in OntTexts |-> process_string(t, remove)]]
fuzzy_key_of == [t \in OntTexts |-> clean_input_fuzzy(t)]

\* terms and keys for fuzzy_match on its own: a key one letter short of
\* another, and two keys of twenty letters that score exactly 0.85 against
\* the term t_long
t_bcells == <<"b","c","e","l","l","s">>
t_b_cell == <<"b","_","c","e","l","l">>
t_cell == <<"c","e","l","l">>
t_cells == <<"c","e","l","l","s">>
t_nothing == <<"n","o","t","h","i","n","g">>
t_long == <<"a","b","c","d","e","f","g","h","i","j","k","l","m","n","o","p","q","r","s","t">>
k_cell == <<"c","e","l","l">>
k_long_head == <<"a","b","c","d","e","f","g","h","i","j","k","l","m","n","o","p","q","x","y","z">>
k_long_tail == <<"x","y","z","d","e","f","g","h","i","j","k","l","m","n","o","p","q","r","s","t">>
FuzzTerms == {t_bcells, t_b_cell, t_cell, t_cells, t_nothing, t_long}
FuzzKeys == {k_bcell, k_cells, k_cell, k_long_head, k_long_tail}

FuzzyIndexKeys ==
  {efo_fuzzy[i].key : i \in 1..Len(efo_fuzzy)}
  \cup {uberon_fuzzy[i].key : i \in 1..Len(uberon_fuzzy)} \cup FuzzKeys

\* token_sort_ratio of every cleaned text against every key, computed once
ratio_of ==
  [t \in {fuzzy_key_of[x] : x \in OntTexts} \cup FuzzTerms |->
     [k \in FuzzyIndexKeys |-> token_sort_ratio(t, k)]]

ensure_list(value) == value

\* {**match, "term": extracted_obj[key], "term_identity": key} for each match
Tagged(values, term, key) ==
  [i \in 1..Len(values) |->
     [ontology_accession |-> values[i].ontology_accession,
      ontology_type |-> values[i].ontology_type,
      official_term |-> values[i].official_term,
      term |-> term,
      term_identity |-> key]]

\* a guard that leaves alone only the slots already resolved
is_skipped_only_resolved(extracted_obj, validated, key) == ~IsNone(validated[key])

\* a guard that leaves alone only the slots that carry "N/A"
is_skipped_only_na(extracted_obj, validated, key) == extracted_obj[key] = o_NA

\* the guard that leaves a slot alone in every tier
is_skipped(extracted_obj, validated, key) ==
  extracted_obj[key] = o_NA \/ ~IsNone(validated[key])

\* validate_ontology: one exact tier over the four slots
validate_ontology(extracted_obj, cellosaurus, efo, uberon, remove_words, validated) ==
  [key \in KeySet |->
     IF is_skipped(extracted_obj, validated, key) THEN validated[key]
     ELSE LET term_key == term_key_of[remove_words][extracted_obj[key]]
          IN IF term_key = <<>> THEN None
             ELSE (IF HasKey(efo, term_key)
                   THEN Tagged(ensure_list(Get(efo, term_key)), extracted_obj[key], key)
                   ELSE <<>>)
                  \o
                  (IF HasKey(uberon, term_key)
                   THEN Tagged(ensure_list(Get(uberon, term_key)), extracted_obj[key], key)
                   ELSE <<>>)]

\* the slots for which validate_ontology reads the indexes
ExactLookups(extracted_obj, remove_words, validated) ==
  {key \in KeySet : /\ ~is_skipped(extracted_obj, validated, key)
                    /\ term_key_of[remove_words][extracted_obj[key]] # <<>>}

\* F applied to the value of e, with e computed once
Bind(e, F(_)) == CHOOSE out \in {F(x) : x \in {e}} : TRUE

\* max_score = 0.85 as a fraction
max_score_start == <<85, 100>>

\* fuzzy_match(term, index), from row i on.  matches is either the list the
\* call created (alias = 0, its content in fresh) or the very list object of
\* row alias, which "matches = values" bound to it; extend then writes into
\* that row of the index.  The result is the matches and the index after it.
RECURSIVE fuzzy_match_from(_, _, _, _, _, _)
fuzzy_match_from(term, index, i, alias, fresh, max_score) ==
  IF i > Len(index)
  THEN [matches |-> IF alias = 0 THEN fresh ELSE index[alias].values, index |-> index]
  ELSE
    LET score == ratio_of[term][index[i].key]
        values == index[i].values
        after ==
          IF FracLess(max_score, score)
          THEN [index |-> index, alias |-> i, fresh |-> fresh, max_score |-> score]
          ELSE IF FracEq(score, max_score)
          THEN IF alias = 0
               THEN [index |-> index, alias |-> alias, fresh |-> fresh \o values,
                     max_score |-> max_score]
               ELSE [index |-> [index EXCEPT ![alias].values = @ \o values],
                     alias |-> alias, fresh |-> fresh, max_score |-> max_score]
          ELSE [index |-> index, alias |-> alias, fresh |-> fresh, max_score |-> max_score]
    IN Bind(after, LAMBDA n : fuzzy_match_from(term, n.index, i + 1, n.alias, n.fresh,
                                                n.max_score))

fuzzy_match(term, index) == fuzzy_match_from(term, index, 1, 0, <<>>, max_score_start)

\* validate_ontology_fuzzy from slot i on: the slots in order, each reading
\* the indexes as the slots before it left them
RECURSIVE validate_ontology_fuzzy_from(_, _, _, _, _, _)
validate_ontology_fuzzy_from(extracted_obj, i, efo, uberon, validated, looked) ==
  IF i > Len(KEYS)
  THEN [validated |-> validated, efo |-> efo, uberon |-> uberon, looked |-> looked]
  ELSE
    LET key == KEYS[i]
        term_key == fuzzy_key_of[extracted_obj[key]]
        after ==
          IF is_skipped(extracted_obj, validated, key)
          THEN [validated |-> validated, efo |-> efo, uberon |-> uberon, looked |-> looked]
          ELSE IF term_key = <<>>
          THEN [validated |-> [validated EXCEPT ![key] = None], efo |-> efo,
                uberon |-> uberon, looked |-> looked]
          ELSE
            Bind(<<fuzzy_match(term_key, efo), fuzzy_match(term_key, uberon)>>,
                 LAMBDA m :
                   [validated |->
                      [validated EXCEPT ![key] =
                         Tagged(ensure_list(m[1].matches), extracted_obj[key], key)
                         \o Tagged(ensure_list(m[2].matches), extracted_obj[key], key)],
                    efo |-> m[1].index,
                    uberon |-> m[2].index,
                    looked |-> looked \cup {key}])
    IN Bind(after, LAMBDA n : validate_ontology_fuzzy_from(extracted_obj, i + 1, n.efo,
                                                           n.uberon, n.validated, n.looked))

validate_ontology_fuzzy(extracted_obj, cellosaurus, efo, uberon, validated) ==
  validate_ontology_fuzzy_from(extracted_obj, 1, efo, uberon, validated, {})

\* the tiers of the waterfall
Tiers == 1..5

\* process_ontology: the slots after the five tiers, the fuzzy indexes as the
\* fifth tier left them, and the <<tier, slot>> pairs that read an index
process_ontology(ont_object, fuzzy) ==
  Bind(validate_ontology(ont_object, cellosaurus_index, efo_index, uberon_index,
                         FALSE, NoSlots), LAMBDA v1 :
  Bind(validate_ontology(ont_object, cellosaurus_index, efo_index, uberon_index,
                         TRUE, v1), LAMBDA v2 :
  Bind(validate_ontology(ont_object, cellosaurus_reduce_index, efo_reduce_index,
                         uberon_reduce_index, FALSE, v2), LAMBDA v3 :
  Bind(validate_ontology(ont_object, cellosaurus_reduce_index, efo_reduce_index,
                         uberon_reduce_index, TRUE, v3), LAMBDA v4 :
  Bind(validate_ontology_fuzzy(ont_object, fuzzy.cellosaurus, fuzzy.efo,
                               fuzzy.uberon, v4), LAMBDA v5 :
    [validated |-> v5.validated,
     fuzzy |-> [cellosaurus |-> fuzzy.cellosaurus, efo |-> v5.efo, uberon |-> v5.uberon],
     looked |-> {<<1, key>> : key \in ExactLookups(ont_object, FALSE, NoSlots)}
                \cup {<<2, key>> : key \in ExactLookups(ont_object, TRUE, v1)}
                \cup {<<3, key>> : key \in ExactLookups(ont_object, FALSE, v2)}
                \cup {<<4, key>> : key \in ExactLookups(ont_object, TRUE, v3)}
                \cup {<<5, key>> : key \in v5.looked}])))))

(***************************************************************************)
(* collapse_ontology_terms                                                 *)
(***************************************************************************)
\* the official terms of the entries in the order of their first appearance
RECURSIVE OfficialTerms(_, _)
OfficialTerms(entries, seen) ==
  IF entries = <<>> THEN <<>>
  ELSE IF Head(entries).official_term \in seen THEN OfficialTerms(Tail(entries), seen)
  ELSE <<Head(entries).official_term>>
       \o OfficialTerms(Tail(entries), seen \cup {Head(entries).official_term})

\* a collapse that keeps every field as a list
Unique_always_list(values) == [scalar |-> FALSE, values |-> values]

\* list(set(values)): one value stays a scalar, any other number of values is
\* a list whose order the set decides
Unique(values) == [scalar |-> Cardinality(values) = 1, values |-> values]

\* the value None of a field of an entry
FieldNone == "<None>"

\* the entries of one official_term, and the fields they have
Group(entries, official_term) ==
  {i \in 1..Len(entries) : entries[i].official_term = official_term}

GroupKeys(entries, group) ==
  UNION {DOMAIN entries[i] : i \in group} \ {"official_term"}

\* the values collected for one field: those present and not None
GroupValues(entries, group, key) ==
  {entries[i][key] : i \in {j \in group : key \in DOMAIN entries[j]
                                           /\ entries[j][key] # FieldNone}}

collapse_ontology_terms(entries) ==
  LET grouped == OfficialTerms(entries, {}) IN
  [g \in 1..Len(grouped) |->
     LET group == Group(entries, grouped[g]) IN
     [key \in GroupKeys(entries, group) \cup {"official_term"} |->
        IF key = "official_term" THEN grouped[g]
        ELSE Unique(GroupValues(entries, group, key))]]

(***************************************************************************)
(* The ontology resolver as a state machine: a batch of samples resolved   *)
(* one after the other against the indexes loaded once                     *)
(***************************************************************************)
MaxSamples == 2
MaxAlt == 4

\* what extract_structured_ontology can put into each slot
SlotInputs ==
  [cell_line |-> {o_NA, o_Empty, o_HeLa, o_K562, o_Bcells},
   cell_type |-> {o_NA, o_Bcell, o_Bcells, o_Unknown},
   tissue    |-> {o_NA, o_LungTissue, o_Liver, o_Trachoea},
   disease   |-> {o_NA, o_BreastCancer, o_LiverType}]

\* what generate_alternate_names can evaluate to: a list of up to MaxAlt
\* strings, such a list ending in an element that is not a string, a value
\* that cannot be iterated, or a raise
AltStrings == {o_Lung, o_Nothing}
AltLists ==
  LET strings(n) == [1..n -> AltStrings]
  IN UNION {strings(n) : n \in 0..MaxAlt}
     \cup UNION {{Append(l, PyInt) : l \in strings(n)} : n \in 0..(MaxAlt - 1)}
AltAnswers ==
  {[kind |-> "list", list |-> l] : l \in AltLists}
  \cup {[kind |-> "not_iterable", list |-> <<>>], [kind |-> "raise", list |-> <<>>]}

loaded_fuzzy == [cellosaurus |-> cellosaurus_fuzzy, efo |-> efo_fuzzy, uberon |-> uberon_fuzzy]

\* the return value of extract_verify_ontology
Pending == [kind |-> "pending", slots |-> NoSlots]
ReturnedNone == [kind |-> "None", slots |-> NoSlots]
Returned(slots) == [kind |-> "object", slots |-> slots]

NoCount == [key \in KeySet |-> 0]

\* no slot has been retried since the last step of the retry loop
NoRetry == [key |-> "none"]
\* the call of generate_alternate_names for a slot and the loop over its answer
Retry(key, answer, status, runs, before, looked) ==
  [key |-> key, kind |-> answer.kind, alt_names |-> answer.list, status |-> status,
   runs |-> runs, before |-> before, looked |-> looked]

SampleStart(pc0) ==
  /\ opc = pc0
  /\ extracted = [key \in KeySet |-> o_NA]
  /\ completed_output = NoSlots
  /\ okey = 1
  /\ validated_object = Pending
  /\ early = FALSE
  /\ lookups = {}
  /\ alt_calls = NoCount
  /\ alt_runs = NoCount
  /\ alt_log = NoRetry

OntStart(pc0) ==
  /\ SampleStart(pc0)
  /\ sample = 1
  /\ fuzzy_indexes = loaded_fuzzy

is_incomplete(validated) == \E key \in KeySet : IsNone(validated[key])

\* the condition under which verify_ontology asks for alternate names
needs_alternates(extracted_value, verified_value) ==
  extracted_value # <<>> /\ extracted_value # o_NA /\ IsNone(verified_value)

\* new_input: every slot "N/A" but the one under retry
new_input(key, alt_name) == [k \in KeySet |-> IF k = key THEN alt_name ELSE o_NA]

\* a loop over alt_names that goes on after an alternate was resolved and
\* keeps the last one resolved
RECURSIVE alt_loop_past_first(_, _, _, _, _, _)
alt_loop_past_first(key, alt_names, i, fz, runs, seen) ==
  IF i > Len(alt_names)
  THEN [status |-> "exhausted", value |-> None, fuzzy |-> fz, runs |-> runs, looked |-> seen]
  ELSE IF alt_names[i] = PyInt
  THEN [status |-> "raised", value |-> None, fuzzy |-> fz, runs |-> runs + 1, looked |-> seen]
  ELSE
    Bind(process_ontology(new_input(key, alt_names[i]), fz), LAMBDA r :
      Bind(alt_loop_past_first(key, alt_names, i + 1, r.fuzzy, runs + 1, seen \cup r.looked),
           LAMBDA rest :
             IF rest.status # "exhausted" \/ IsNone(r.validated[key]) THEN rest
             ELSE [status |-> "found", value |-> r.validated[key], fuzzy |-> rest.fuzzy,
                   runs |-> rest.runs, looked |-> rest.looked]))

\* the loop over alt_names from element i on: stops at the first alternate the
\* waterfall resolves, raises at an element that is not a string
RECURSIVE alt_loop(_, _, _, _, _, _)
alt_loop(key, alt_names, i, fz, runs, seen) ==
  IF i > Len(alt_names)
  THEN [status |-> "exhausted", value |-> None, fuzzy |-> fz, runs |-> runs, looked |-> seen]
  ELSE IF alt_names[i] = PyInt
  THEN [status |-> "raised", value |-> None, fuzzy |-> fz, runs |-> runs + 1, looked |-> seen]
  ELSE
    Bind(process_ontology(new_input(key, alt_names[i]), fz), LAMBDA r :
      IF ~IsNone(r.validated[key])
      THEN [status |-> "found", value |-> r.validated[key], fuzzy |-> r.fuzzy,
            runs |-> runs + 1, looked |-> seen \cup r.looked]
      ELSE alt_loop(key, alt_names, i + 1, r.fuzzy, runs + 1, seen \cup r.looked))

\* verify_ontology after the retry loop: the final collapse and the return
collapsed(slots) ==
  [key \in KeySet |->
     IF IsNone(slots[key]) THEN None ELSE collapse_ontology_terms(slots[key])]

\* extract_verify_ontology gives up: the extraction or verify_ontology raised
OGiveUp ==
  /\ opc' = "done"
  /\ validated_object' = ReturnedNone

\* extract_structured_ontology raises
OExtractRaises ==
  /\ opc = "extract"
  /\ OGiveUp
  /\ UNCHANGED <<sample, extracted, completed_output, okey, fuzzy_indexes, early, lookups,
                 alt_calls, alt_runs, alt_log, notOnt>>

\* extract_structured_ontology answers; verify_ontology runs the first
\* waterfall and returns its result as it is when no slot is None
OExtract ==
  /\ opc = "extract"
  /\ \E cl \in SlotInputs.cell_line, ct \in SlotInputs.cell_type,
        ts \in SlotInputs.tissue, ds \in SlotInputs.disease :
       \E r \in {process_ontology([cell_line |-> cl, cell_type |-> ct, tissue |-> ts,
                                   disease |-> ds], fuzzy_indexes)} :
          /\ extracted' = [cell_line |-> cl, cell_type |-> ct, tissue |-> ts, disease |-> ds]
          /\ completed_output' = r.validated
          /\ fuzzy_indexes' = r.fuzzy
          /\ lookups' = r.looked
          /\ IF ~is_incomplete(r.validated)
             THEN /\ opc' = "done"
                  /\ early' = TRUE
                  /\ validated_object' = Returned(r.validated)
             ELSE /\ opc' = "retry"
                  /\ UNCHANGED <<early, validated_object>>
  /\ UNCHANGED <<sample, okey, alt_calls, alt_runs, alt_log, notOnt>>

\* the retry loop leaves the loop after the fourth slot
AfterKey ==
  IF okey = Len(KEYS) THEN opc' = "collapse" /\ okey' = okey
  ELSE opc' = "retry" /\ okey' = okey + 1

\* the retry loop passes a slot that needs no alternate names
ORetrySkip ==
  /\ opc = "retry"
  /\ ~needs_alternates(extracted[KEYS[okey]], completed_output[KEYS[okey]])
  /\ AfterKey
  /\ alt_log' = NoRetry
  /\ UNCHANGED <<sample, extracted, completed_output, fuzzy_indexes, validated_object, early,
                 lookups, alt_calls, alt_runs, notOnt>>

\* the retry loop asks for alternate names of a slot and runs them through
\* the waterfall; nothing catches a raise before extract_verify_ontology
OAlternateNames ==
  /\ opc = "retry"
  /\ needs_alternates(extracted[KEYS[okey]], completed_output[KEYS[okey]])
  /\ \E answer \in AltAnswers :
       \E key \in {KEYS[okey]} :
       \E r \in {alt_loop(key, answer.list, 1, fuzzy_indexes, 0, lookups)} :
          /\ alt_calls' = [alt_calls EXCEPT ![key] = @ + 1]
          /\ alt_log' = Retry(key, answer, r.status, r.runs, completed_output, lookups)
          /\ IF answer.kind # "list"
             THEN /\ OGiveUp
                  /\ UNCHANGED <<okey, completed_output, fuzzy_indexes, lookups, alt_runs>>
             ELSE /\ alt_runs' = [alt_runs EXCEPT ![key] = @ + r.runs]
                  /\ fuzzy_indexes' = r.fuzzy
                  /\ lookups' = r.looked
                  /\ IF r.status = "raised"
                     THEN OGiveUp /\ UNCHANGED <<okey, completed_output>>
                     ELSE /\ completed_output' =
                               IF r.status = "found"
                               THEN [completed_output EXCEPT ![key] = r.value]
                               ELSE completed_output
                          /\ AfterKey
                          /\ UNCHANGED validated_object
  /\ UNCHANGED <<sample, extracted, early, notOnt>>

\* the list slots are collapsed and the object is returned
OCollapse ==
  /\ opc = "collapse"
  /\ completed_output' = collapsed(completed_output)
  /\ validated_object' = Returned(completed_output')
  /\ opc' = "done"
  /\ alt_log' = NoRetry
  /\ UNCHANGED <<sample, extracted, okey, fuzzy_indexes, early, lookups, alt_calls, alt_runs,
                 notOnt>>

\* meta_extract_ontologies goes on to the next sample of the batch
ONextSample ==
  /\ opc = "done"
  /\ sample < MaxSamples
  /\ sample' = sample + 1
  /\ opc' = "extract"
  /\ extracted' = [key \in KeySet |-> o_NA]
  /\ completed_output' = NoSlots
  /\ okey' = 1
  /\ validated_object' = Pending
  /\ early' = FALSE
  /\ lookups' = {}
  /\ alt_calls' = NoCount
  /\ alt_runs' = NoCount
  /\ alt_log' = NoRetry
  /\ UNCHANGED <<fuzzy_indexes, notOnt>>

ONext ==
  \/ OExtractRaises
  \/ OExtract
  \/ ORetrySkip
  \/ OAlternateNames
  \/ OCollapse
  \/ ONextSample


(***************************************************************************)
(* fuzzy_match on its own: one index, its keys in any order, looked up     *)
(* with one term after the other                                           *)
(***************************************************************************)
MaxLookups == 2

e_cell == Entry("CL_0000000", "EFO", "cell")
e_long_head == Entry("EFO_0000001", "EFO", "abcdefghijklmnopqxyz")
e_long_tail == Entry("EFO_0000002", "EFO", "xyzdefghijklmnopqrst")

FuzzRows ==
  { Row(k_bcell, <<e_bcell>>), Row(k_cells, <<e_cells>>), Row(k_cell, <<e_cell, e_cells>>),
    Row(k_long_head, <<e_long_head>>), Row(k_long_tail, <<e_long_tail>>) }

\* the orders in which a dict can hold the rows
FuzzIndexes ==
  {ix \in [1..Cardinality(FuzzRows) -> FuzzRows] : Range(ix) = FuzzRows}

FuzzStart(pc0) ==
  /\ ft_pc = pc0
  /\ ft_index \in (IF pc0 = "off" THEN {<<>>} ELSE FuzzIndexes)
  /\ ft_before = <<>>
  /\ ft_term = <<>>
  /\ ft_matches = None
  /\ ft_count = 0

\* one call fuzzy_match(term, index)
FzLookup ==
  /\ ft_pc = "lookup"
  /\ ft_count < MaxLookups
  /\ \E term \in FuzzTerms :
       \E r \in {fuzzy_match(term, ft_index)} :
         /\ ft_term' = term
         /\ ft_before' = ft_index
         /\ ft_index' = r.index
         /\ ft_matches' = r.matches
  /\ ft_count' = ft_count + 1
  /\ UNCHANGED <<ft_pc, notFuzz>>

FzNext == FzLookup

(***************************************************************************)
(* collapse_ontology_terms on its own: one call on any list of entries     *)
(***************************************************************************)
MaxEntries == 3

\* entries with and without the field term, with and without an accession
CollapseTerms == {"B cell", "lung"}
CollapseAccessions == {"CL_0000236", "CL_0000000", FieldNone}
CollapseEntries ==
  {[official_term |-> o, ontology_accession |-> a] :
     o \in CollapseTerms, a \in CollapseAccessions}
  \cup {[official_term |-> o, ontology_accession |-> a, term |-> "B-cells"] :
          o \in CollapseTerms, a \in CollapseAccessions}

CollapseInputs == UNION {[1..n -> CollapseEntries] : n \in 0..MaxEntries}

CollapseStart(pc0) ==
  /\ cl_pc = pc0
  /\ cl_entries \in IF pc0 = "off" THEN {<<>>} ELSE CollapseInputs
  /\ cl_collapsed = <<>>

ClCollapse ==
  /\ cl_pc = "call"
  /\ cl_collapsed' = collapse_ontology_terms(cl_entries)
  /\ cl_pc' = "returned"
  /\ UNCHANGED <<cl_entries, notCollapse>>

ClNext == ClCollapse

(***************************************************************************)
(* The batch functions meta_extract_factors and                            *)
(* meta_extract_factors_and_ontologies: the mappings and the reference     *)
(* data are loaded once, then the identifiers are visited in order.  The   *)
(* two resolvers are taken by what they return.                            *)
(***************************************************************************)
MaxIds == 2

BatchFunctions == {"meta_extract_factors", "meta_extract_factors_and_ontologies"}

\* the exceptions pd.read_csv and open/json.load raise on a file that is
\* missing, malformed, empty or not UTF-8
CsvErrors == {"FileNotFoundError", "ParserError", "EmptyDataError", "UnicodeDecodeError"}
JsonErrors == {"FileNotFoundError", "JSONDecodeError", "UnicodeDecodeError"}

ReferenceLoadErrors(fn) ==
  IF fn = "meta_extract_factors" THEN CsvErrors ELSE CsvErrors \cup JsonErrors

\* the except clauses around the loading of the reference data
CaughtAtLoad(fn) ==
  IF fn = "meta_extract_factors" THEN {"FileNotFoundError", "ParserError"}
  ELSE {"FileNotFoundError", "ParserError", "JSONDecodeError"}

\* "mappings": _load_json_data gave None or an empty mapping for one of the
\* three lookup files
LoadOutcomes(fn) == {"ok", "mappings"} \cup ReferenceLoadErrors(fn)

\* what an identifier finds on disk: its GSM file (absent, not parsable, or
\* fine), the GSE ids mapped to it, and whether one of their files can be read
Context(gsm, gse_ids, gse_files) ==
  [gsm |-> gsm, gse_ids |-> gse_ids, gse_files |-> gse_files]

Contexts ==
  {Context("ok", TRUE, TRUE), Context("missing", TRUE, TRUE),
   Context("unparsable", TRUE, TRUE), Context("ok", FALSE, FALSE),
   Context("ok", TRUE, FALSE)}

IdLists == UNION {[1..n -> Contexts] : n \in 1..MaxIds}

\* a loop body that never takes a continue
is_processed_always(context) == TRUE

\* the loop body reaches the extraction: no continue is taken
is_processed(context) ==
  /\ context.gsm # "missing"
  /\ context.gse_ids
  /\ context.gsm # "unparsable"
  /\ context.gse_files

\* what extract_verify_factor returns, and whether an oracle raised inside
FactorOutcomes ==
  {[object |-> o, oracle_raised |-> r] :
     o \in {EmptyObject, FactorObject(s_ESR1), FactorObject(s_H3K4me3)},
     r \in BOOLEAN}

\* what extract_verify_ontology returns: None when the extraction or
\* verify_ontology raised, else the validated object
lung_slot == Tagged(<<e_lung>>, o_Lung, "tissue")
OntologyOutcomes ==
  {ReturnedNone, Returned(NoSlots), Returned([NoSlots EXCEPT !["tissue"] = lung_slot])}

NoFactor == [kind |-> "None"]
NotCalled == [kind |-> "not called"]

\* truth value of extracted_factor and of extracted_ontology: the validated
\* object is a dict with the keys of the slots, geo and extracted
factor_is_true(f) == f.kind = "factor"
ontology_is_true(o) == o.kind = "object"

NotApplicable == [kind |-> "N/A"]
Entries(list) == [kind |-> "entries", entries |-> list]

\* _format_output_structure
format_output_structure(gsm_id, extracted_factor, extracted_ontology) ==
  [gsm_id |-> gsm_id,
   factor |-> IF extracted_factor.kind = "factor" THEN extracted_factor ELSE NoFactor,
   ontology |->
     IF extracted_ontology.kind = "object"
     THEN [kind |-> "ontology",
           extracted_ontologies |->
             [key \in KeySet |->
                IF IsNone(extracted_ontology.slots[key]) THEN NotApplicable
                ELSE Entries(extracted_ontology.slots[key])]]
     ELSE [kind |-> "None"]]

Visit(context, factor_result, ontology_result) ==
  [context |-> context, factor |-> factor_result, ontology |-> ontology_result]

BatchStart(pc0) ==
  /\ b_pc = pc0
  /\ b_fn \in IF pc0 = "off" THEN {"none"} ELSE BatchFunctions
  /\ b_load \in IF pc0 = "off" THEN {"ok"} ELSE LoadOutcomes(b_fn)
  /\ b_ids \in IF pc0 = "off" THEN {<<>>} ELSE IdLists
  /\ b_i = 0
  /\ b_factor = NoFactor
  /\ b_ontology = ReturnedNone
  /\ b_results = <<>>
  /\ b_done = <<>>

\* the mappings and the reference data are loaded
BLoad ==
  /\ b_pc = "load"
  /\ b_pc' = IF b_load = "ok" THEN "next_id"
             ELSE IF b_load = "mappings" \/ b_load \in CaughtAtLoad(b_fn) THEN "returned"
             ELSE "raised"
  /\ UNCHANGED <<b_fn, b_load, b_ids, b_i, b_factor, b_ontology, b_results, b_done,
                 notBatch>>

\* the head of the for loop and the checks that skip an identifier
BNextId ==
  /\ b_pc = "next_id"
  /\ IF b_i = Len(b_ids)
     THEN /\ b_pc' = "returned"
          /\ UNCHANGED <<b_i, b_done>>
     ELSE /\ b_i' = b_i + 1
          /\ IF is_processed(b_ids[b_i + 1])
             THEN /\ b_pc' = "factor"
                  /\ b_done' = b_done
             ELSE /\ b_pc' = "next_id"
                  /\ b_done' = Append(b_done, Visit(b_ids[b_i + 1], NotCalled, NotCalled))
  /\ b_factor' = NoFactor
  /\ b_ontology' = ReturnedNone
  /\ UNCHANGED <<b_fn, b_load, b_ids, b_results, notBatch>>

\* extract_verify_factor is called
BFactor ==
  /\ b_pc = "factor"
  /\ \E outcome \in FactorOutcomes :
       /\ b_factor' = IF outcome.object.kind = "factor" THEN outcome.object ELSE NoFactor
       /\ b_done' = Append(b_done, Visit(b_ids[b_i], outcome, NotCalled))
  /\ b_pc' = IF b_fn = "meta_extract_factors" THEN "combine" ELSE "ontology"
  /\ UNCHANGED <<b_fn, b_load, b_ids, b_i, b_ontology, b_results, notBatch>>

\* extract_verify_ontology is called
BOntology ==
  /\ b_pc = "ontology"
  /\ \E outcome \in OntologyOutcomes :
       /\ b_ontology' = outcome
       /\ b_done' = [b_done EXCEPT ![Len(b_done)].ontology = outcome]
  /\ b_pc' = "combine"
  /\ UNCHANGED <<b_fn, b_load, b_ids, b_i, b_factor, b_results, notBatch>>

\* the record of the identifier is appended to results
BCombine ==
  /\ b_pc = "combine"
  /\ b_results' =
       IF factor_is_true(b_factor) \/ ontology_is_true(b_ontology)
       THEN Append(b_results, format_output_structure(b_i, b_factor, b_ontology))
       ELSE b_results
  /\ b_pc' = "next_id"
  /\ UNCHANGED <<b_fn, b_load, b_ids, b_i, b_factor, b_ontology, b_done, notBatch>>

BNext == BLoad \/ BNextId \/ BFactor \/ BOntology \/ BCombine

(***************************************************************************)
(* validate_chromatin_remodelers on its own: one call on any list of gene  *)
(* rows, against the table the downloader writes                           *)
(***************************************************************************)
MaxMatches == 3

s_SMARCA4 == <<"S","M","A","R","C","A","4">>
s_INO80 == <<"I","N","O","8","0">>

\* gene rows whose Symbol is a symbol of the table, a synonym of the table,
\* or neither
FilterRowsGiven ==
  {[Symbol |-> sym, Synonyms |-> <<"-">>] :
     sym \in {s_SMARCA4, s_INO80, s_BRG1, s_SNF2, s_ESR1}}

FilterInputs == UNION {[1..n -> FilterRowsGiven] : n \in 0..MaxMatches}

FilterStart(pc0) ==
  /\ cr_pc = pc0
  /\ cr_matches \in IF pc0 = "off" THEN {<<>>} ELSE FilterInputs
  /\ cr_filtered = <<>>

CrFilter ==
  /\ cr_pc = "call"
  /\ cr_filtered' = validate_chromatin_remodelers(cr_matches, chromatin_df)
  /\ cr_pc' = "returned"
  /\ UNCHANGED <<cr_matches, notFilter>>

CrNext == CrFilter

(***************************************************************************)
(* process_data: the downloaded files are parsed or moved one after the    *)
(* other, each step in its own try block, and the two unparsed directories *)
(* are deleted when no step raised                                         *)
(***************************************************************************)
OntologyFiles == {"cellosaurus.txt", "efo.owl", "uberon-full.json"}
FactorFiles == {"gene_info.gz", "Homo_sapiens_TF.csv", "Homo_sapiens_CR.csv"}
RawFiles == OntologyFiles \cup FactorFiles

ProcessStart(pc0) ==
  /\ pd_pc = pc0
  /\ raw \in (IF pc0 = "off" THEN {{}} ELSE SUBSET RawFiles)
  /\ raw_at_start = raw
  /\ parsed = {}
  /\ gene_ids \in (IF pc0 = "off" THEN {FALSE} ELSE BOOLEAN)
  /\ error_occured = FALSE

\* one try block of process_data around a parser: the parser writes its
\* outputs, raises, or (quiet) returns without either
ParseStep(pc0, file, ready, quiet, pc1) ==
  /\ pd_pc = pc0
  /\ pd_pc' = pc1
  /\ IF file \in raw /\ ready
     THEN \E outcome \in {"written", "raised"} \cup quiet :
            /\ parsed' = IF outcome = "written" THEN parsed \cup {file} ELSE parsed
            /\ error_occured' = (error_occured \/ outcome = "raised")
     ELSE UNCHANGED <<parsed, error_occured>>
  /\ UNCHANGED <<raw, raw_at_start, gene_ids, notProcess>>

\* one try block of process_data around move_file
MoveStep(pc0, file, pc1) ==
  /\ pd_pc = pc0
  /\ pd_pc' = pc1
  /\ IF file \in raw
     THEN \E outcome \in {"moved", "raised"} :
            /\ parsed' = IF outcome = "moved" THEN parsed \cup {file} ELSE parsed
            /\ raw' = IF outcome = "moved" THEN raw \ {file} ELSE raw
            /\ error_occured' = (error_occured \/ outcome = "raised")
     ELSE UNCHANGED <<raw, parsed, error_occured>>
  /\ UNCHANGED <<raw_at_start, gene_ids, notProcess>>

PCellosaurus == ParseStep("cellosaurus", "cellosaurus.txt", TRUE, {}, "efo")
PEfo == ParseStep("efo", "efo.owl", TRUE, {}, "uberon")
\* process_uberon_file returns without writing when the JSON cannot be read
PUberon == ParseStep("uberon", "uberon-full.json", TRUE, {"returned"}, "gene_info")
\* gene_info.gz is converted only when gene_ids.npy is there as well
PGeneInfo == ParseStep("gene_info", "gene_info.gz", gene_ids, {}, "tf")
PMoveTF == MoveStep("tf", "Homo_sapiens_TF.csv", "cr")
PMoveCR == MoveStep("cr", "Homo_sapiens_CR.csv", "delete")

\* delete_folder: what is left of files when rmtree removes the folder, or
\* raises having removed any part of it
delete_folder(files, folder) == {files \ gone : gone \in SUBSET (files \cap folder)}

\* the end of process_data: the two directories are deleted unless a step raised
PDelete ==
  /\ pd_pc = "delete"
  /\ pd_pc' = "done"
  /\ IF ~error_occured
     THEN \E after_factor \in delete_folder(raw, FactorFiles) :
            raw' \in delete_folder(after_factor, OntologyFiles)
     ELSE raw' = raw
  /\ UNCHANGED <<raw_at_start, parsed, gene_ids, error_occured, notProcess>>

PNext ==
  \/ PCellosaurus \/ PEfo \/ PUberon \/ PGeneInfo \/ PMoveTF \/ PMoveCR \/ PDelete

(***************************************************************************)
(* Specifications                                                          *)
(***************************************************************************)
HInit ==
  /\ HistStart("variant")
  /\ FactorStart("off")
  /\ OntStart("off")
  /\ FuzzStart("off")
  /\ CollapseStart("off")
  /\ BatchStart("off")
  /\ FilterStart("off")
  /\ ProcessStart("off")
SpecHistone == HInit /\ [][HNext]_vars

FInit ==
  /\ HistStart("off")
  /\ FactorStart("is_control")
  /\ OntStart("off")
  /\ FuzzStart("off")
  /\ CollapseStart("off")
  /\ BatchStart("off")
  /\ FilterStart("off")
  /\ ProcessStart("off")
SpecFactor == FInit /\ [][FNext]_vars

OInit ==
  /\ HistStart("off")
  /\ FactorStart("off")
  /\ OntStart("extract")
  /\ FuzzStart("off")
  /\ CollapseStart("off")
  /\ BatchStart("off")
  /\ FilterStart("off")
  /\ ProcessStart("off")
SpecOntology == OInit /\ [][ONext]_vars

FzInit ==
  /\ HistStart("off")
  /\ FactorStart("off")
  /\ OntStart("off")
  /\ FuzzStart("lookup")
  /\ CollapseStart("off")
  /\ BatchStart("off")
  /\ FilterStart("off")
  /\ ProcessStart("off")
SpecFuzzy == FzInit /\ [][FzNext]_vars

ClInit ==
  /\ HistStart("off")
  /\ FactorStart("off")
  /\ OntStart("off")
  /\ FuzzStart("off")
  /\ CollapseStart("call")
  /\ BatchStart("off")
  /\ FilterStart("off")
  /\ ProcessStart("off")
SpecCollapse == ClInit /\ [][ClNext]_vars

BInit ==
  /\ HistStart("off")
  /\ FactorStart("off")
  /\ OntStart("off")
  /\ FuzzStart("off")
  /\ CollapseStart("off")
  /\ BatchStart("load")
  /\ FilterStart("off")
  /\ ProcessStart("off")
SpecBatch == BInit /\ [][BNext]_vars

CrInit ==
  /\ HistStart("off")
  /\ FactorStart("off")
  /\ OntStart("off")
  /\ FuzzStart("off")
  /\ CollapseStart("off")
  /\ BatchStart("off")
  /\ FilterStart("call")
  /\ ProcessStart("off")
SpecFilter == CrInit /\ [][CrNext]_vars

PInit ==
  /\ HistStart("off")
  /\ FactorStart("off")
  /\ OntStart("off")
  /\ FuzzStart("off")
  /\ CollapseStart("off")
  /\ BatchStart("off")
  /\ FilterStart("off")
  /\ ProcessStart("cellosaurus")
SpecProcess == PInit /\ [][PNext]_vars


(***************************************************************************)
(* Properties of the factor resolver                                       *)
(***************************************************************************)
\* a run of extract_verify_factor has ended
FactorDone == fpc = "done"

\* verify_factor left its loop with no round satisfied and no recheck raised
Exhausted == returned_by = "loop_end" /\ ~satisfied

C6_ControlShortCircuit ==
  control \in {s_True, LowerStr(s_True)} =>
    /\ FactorDone
    /\ verified_object = EmptyObject
    /\ calls = [NoCalls EXCEPT !.is_control = 1]
    /\ loop_count = 0 /\ failed_factors = <<>> /\ returned_by = "none"

C6_Witness == control = s_True /\ FactorDone

(***************************************************************************)
(* Properties of the histone grammar                                       *)
(***************************************************************************)
\* C7: every string built as a variant followed by one or more triples
\* (residue of the table, digits, a modification allowed for the residue,
\* optional symmetry suffix) is accepted by validate_histone_mark.
C7_GrammarStringsAccepted ==
  (hpc = "done" /\ hJunk = 0 /\ hTriples >= 1) => hResult = TRUE

\* C8: validate_histone_mark accepts only strings made of a variant followed
\* by at least one complete triple.
C8_AcceptedOnlyWithTriple ==
  (hpc = "done" /\ hResult = TRUE) => InGrammar(mark)

(***************************************************************************)
(* Claims about the ontology resolver                                      *)
(***************************************************************************)
OntologyReturned == opc = "done" /\ validated_object.kind = "object"
AskedAlternates == \E key \in KeySet : alt_calls[key] > 0
AfterFirstWaterfall == (opc = "retry" /\ okey = 1) \/ (opc = "done" /\ early)

\* C2: in every result verify_ontology returns, the entries of a slot have
\* pairwise distinct official_term values, also when the first waterfall
\* resolved all four slots.
C2_DistinctOfficialTerms ==
  OntologyReturned =>
    \A key \in KeySet :
      \A i, j \in 1..Len(validated_object.slots[key]) :
        i # j => validated_object.slots[key][i].official_term
                   # validated_object.slots[key][j].official_term

\* C3: when generate_alternate_names raises or answers with malformed data for
\* one slot, an object is still returned and every slot the waterfall had
\* resolved is still resolved in it.
C3_AlternateFailureIsolated ==
  (opc = "done" /\ AskedAlternates) =>
    \A key \in KeySet :
      ~IsNone(completed_output[key]) =>
        validated_object.kind = "object" /\ ~IsNone(validated_object.slots[key])

\* C4: no resolution modifies a reference index: after any number of
\* samples every key of the fuzzy indexes maps to the list it was loaded with
\* (the exact and reduced indexes are never written by any statement).
C4_IndexesUnchanged == fuzzy_indexes = loaded_fuzzy

\* C5: a slot whose candidate is the literal "N/A" stays None, is None in the
\* object returned, reads no index in any of the five tiers and never has
\* generate_alternate_names called for it.
C5_NotApplicableUntouched ==
  \A key \in KeySet :
    extracted[key] = o_NA =>
      /\ IsNone(completed_output[key])
      /\ IsNone(validated_object.slots[key])
      /\ \A tier \in Tiers : <<tier, key>> \notin lookups
      /\ alt_calls[key] = 0
      /\ alt_runs[key] = 0

C5_Witness ==
  /\ OntologyReturned
  /\ AskedAlternates
  /\ \E key \in KeySet : extracted[key] = o_NA
  /\ \E key \in KeySet : ~IsNone(validated_object.slots[key])

\* C9: after the first waterfall a cell_line candidate whose tier-1 key is in
\* the Cellosaurus exact index holds the Cellosaurus entries of that key.
C9_CellLineUnionsCellosaurus ==
  ( /\ AfterFirstWaterfall
    /\ extracted["cell_line"] # o_NA
    /\ HasKey(cellosaurus_index, term_key_of[FALSE][extracted["cell_line"]]) )
  => \E i \in 1..Len(completed_output["cell_line"]) :
       completed_output["cell_line"][i].ontology_type = "Cellosaurus"

\* C10: for each slot generate_alternate_names is called at most once and at
\* most 3 alternates are handed to the waterfall, whatever the list returned.
C10_AlternatesCapped ==
  \A key \in KeySet : alt_calls[key] <= 1 /\ alt_runs[key] <= 3

\* the values of the term and term_identity fields of an entry returned: the
\* first waterfall's entries are returned as tagged, the others collapsed
TermsOf(entry) == IF early THEN {entry.term} ELSE entry.term.values
IdentitiesOf(entry) == IF early THEN {entry.term_identity} ELSE entry.term_identity.values

\* C11: every entry of a slot of the object verify_ontology returns carries
\* the name of its slot as term_identity and the candidate extracted for that
\* slot as term, also when an alternate name resolved the slot.
C11_TaggedWithOriginalCandidate ==
  OntologyReturned =>
    \A key \in KeySet :
      \A i \in 1..Len(validated_object.slots[key]) :
        /\ IdentitiesOf(validated_object.slots[key][i]) = {key}
        /\ TermsOf(validated_object.slots[key][i]) = {extracted[key]}

\* the score of row i of the index the last call of fuzzy_match was given
ScoreOf(i) == ratio_of[ft_term][ft_before[i].key]
Attains(i) ==
  /\ ~FracLess(ScoreOf(i), max_score_start)
  /\ \A j \in 1..Len(ft_before) : ~FracLess(ScoreOf(i), ScoreOf(j))

\* C12: whatever the order of the keys, fuzzy_match returns the entries of
\* exactly the keys whose score is the maximum over the index, when that
\* maximum is at least 0.85, and no match otherwise.
C12_FuzzyReturnsAllAtMaximum ==
  ft_count > 0 =>
    /\ Range(ft_matches) =
         UNION {Range(ft_before[i].values) : i \in {j \in 1..Len(ft_before) : Attains(j)}}
    /\ IsNone(ft_matches) <=> ~\E i \in 1..Len(ft_before) : Attains(i)

C12_Witness ==
  /\ ft_count > 0
  /\ \E i, j \in 1..Len(ft_before) :
       /\ i < j /\ Attains(i) /\ Attains(j)
       /\ FracLess(max_score_start, ScoreOf(i))
       /\ Range(ft_before[i].values) \cup Range(ft_before[j].values) \subseteq Range(ft_matches)

(***************************************************************************)
(* Further claims about the factor resolver                                *)
(***************************************************************************)
\* the candidate extract_factor gave, once the first round has begun
InFirstRound == Len(failed_factors) >= 1
FirstCandidate == failed_factors[1]

NoDisambiguation ==
  /\ calls.tf_picker = 0
  /\ calls.cr_picker = 0
  /\ calls.gene_picker = 0
  /\ calls.generate_synonyms = 0
  /\ calls.factor_recheck = 0

SingleRow(f) == f # s_None /\ ~histone_of[f] /\ Len(matches_of[f]) = 1

\* C13: a first candidate that is no histone code and has exactly one row in
\* the gene table is resolved to that row in the first round, and no picker,
\* generate_synonyms or factor_recheck call is made.
C13_SingleRowResolvesAtOnce ==
  (InFirstRound /\ SingleRow(FirstCandidate)) =>
    /\ loop_count = 1
    /\ satisfied
    /\ result = RowSeries(matches_of[FirstCandidate][1])
    /\ NoDisambiguation
    /\ fpc \in {"while", "return", "done"}
    /\ fpc = "done" =>
         verified_object = FactorObject(matches_of[FirstCandidate][1].Symbol)

C13_Witness ==
  /\ fpc = "done"
  /\ InFirstRound
  /\ SingleRow(FirstCandidate)
  /\ verified_object = FactorObject(s_ESR1)

\* the candidate of the current round and what the round did with it
RoundCandidate == failed_factors[Len(failed_factors)]
LookedTexts == [i \in 1..Len(round_log.looked) |-> round_log.looked[i].text]
OwnLookup ==
  IF RoundCandidate = s_None \/ histone_of[RoundCandidate] THEN <<>>
  ELSE <<RoundCandidate>>
SynonymsLooked == Len(round_log.looked) - Len(OwnLookup)
LastLookup == round_log.looked[Len(round_log.looked)]
SymbolsOffered(text) ==
  {matches_of[text][i].Symbol : i \in 1..Len(matches_of[text])} \cup {text}

\* C14: in every round generate_synonyms is called at most once, and exactly
\* once when the candidate is unsatisfied and is not "None"; the synonyms are
\* looked up in the order of the returned list; nothing is looked up after a
\* satisfied lookup, whose row is the result; an unsatisfied round has looked
\* up every synonym; and a candidate "None" causes no gene-table lookup and no
\* generate_synonyms call.
C14_SynonymsInOrderUntilSatisfied ==
  InFirstRound =>
    /\ round_log.asked <= 1
    /\ round_log.asked = 0 => round_log.answer = <<>>
    /\ SynonymsLooked \in 0..Len(round_log.answer)
    /\ LookedTexts = OwnLookup \o SubSeq(round_log.answer, 1, SynonymsLooked)
    /\ \A i \in 1..(Len(round_log.looked) - 1) : ~round_log.looked[i].sat
    /\ RoundCandidate = s_None => round_log.looked = <<>> /\ round_log.asked = 0
    /\ (fpc \in {"synonym_loop", "factor_recheck"} /\ RoundCandidate # s_None) =>
         round_log.asked = 1
    /\ fpc = "factor_recheck" => SynonymsLooked = Len(round_log.answer)
    /\ satisfied =>
         /\ round_log.looked # <<>>
         /\ LastLookup.sat
         /\ result.kind = "row"
         /\ result.row.Symbol \in SymbolsOffered(LastLookup.text)

C14_Witness ==
  /\ fpc = "done"
  /\ satisfied
  /\ round_log.answer = <<s_ESR1, s_POL2>>
  /\ LookedTexts = <<s_XYZ, s_ESR1>>
  /\ verified_object = FactorObject(s_ESR1)

\* the texts validate_histone_mark accepts
passes_histone == [f \in FactorTexts |-> f # PyNone /\ validate_histone_mark(f)]

\* C19: a round whose candidate passes validate_histone_mark returns at once
\* with the candidate itself as symbol; the round looks nothing up in the gene
\* table and calls no picker, generate_synonyms or factor_recheck.  The
\* candidate is the one extract_factor gave or one factor_recheck gave.
C19_HistoneReturnsAtOnce ==
  (InFirstRound /\ passes_histone[RoundCandidate]) =>
    /\ returned_by = "histone"
    /\ fpc \in {"return", "done"}
    /\ result = RowSeries([Symbol |-> RoundCandidate])
    /\ round_log.looked = <<>>
    /\ round_log.asked = 0
    /\ calls = round_log.base
    /\ fpc = "done" => verified_object = FactorObject(RoundCandidate)

\* a histone code given by the second factor_recheck is returned in round 3
C19_Witness ==
  /\ fpc = "done"
  /\ returned_by = "histone"
  /\ loop_count = 3
  /\ calls.factor_recheck = 2
  /\ calls = round_log.base
  /\ verified_object = FactorObject(s_H3K4me3)

\* the two filters of validate_binding_protein on the rows of each text
tf_of == [f \in FactorTexts |-> validate_transcription_factor(matches_of[f], TF_df)]
cr_of == [f \in FactorTexts |-> validate_chromatin_remodelers(matches_of[f], chromatin_df)]

\* the picker calls of the current round that have returned
PickerCalls(name) ==
  Cardinality({i \in 1..Len(round_log.looked) : round_log.looked[i].picker = name})
    - (IF fpc = "picker" /\ pending.picker = name THEN 1 ELSE 0)

\* C20: for a lookup with more than one row the sources are consulted in the
\* order TF filter, CR filter, histone check, gene_picker, and a later source
\* only when the filters before it are empty: with a non-empty TF filter
\* neither cr_picker nor gene_picker is called, with a non-empty CR filter
\* gene_picker is not called, and a lookup calls at most the one picker of its
\* source, whatever the picker answers.
C20_SourcesInFixedOrder ==
  InFirstRound =>
    /\ \A i \in 1..Len(round_log.looked) :
         LET e == round_log.looked[i] IN
         Len(matches_of[e.text]) > 1 =>
           /\ tf_of[e.text] # <<>> => e.picker \in {"none", "tf_picker"}
           /\ (tf_of[e.text] = <<>> /\ cr_of[e.text] # <<>>) =>
                e.picker \in {"none", "cr_picker"}
           /\ (tf_of[e.text] = <<>> /\ cr_of[e.text] = <<>>) =>
                e.picker = IF passes_histone[e.text] THEN "none" ELSE "gene_picker"
    /\ \A name \in {"tf_picker", "cr_picker", "gene_picker"} :
         calls[name] - round_log.base[name] = PickerCalls(name)

\* tf_picker's answer was rejected (or it raised) and the round went on to the
\* recheck without any other picker
C20_Witness ==
  /\ fpc = "factor_recheck"
  /\ round_log.looked # <<>>
  /\ round_log.looked[1] = Lookup(s_ER, "tf_picker", FALSE)
  /\ Len(tf_of[s_ER]) > 1
  /\ calls.tf_picker = 1
  /\ calls.cr_picker = 0
  /\ calls.gene_picker = 0

(***************************************************************************)
(* Claims about collapse_ontology_terms                                    *)
(***************************************************************************)
CollapseReturned == cl_pc = "returned"
InputTerms == {cl_entries[i].official_term : i \in 1..Len(cl_entries)}
MergedFor(official_term) ==
  {g \in 1..Len(cl_collapsed) : cl_collapsed[g].official_term = official_term}

\* C15: collapse_ontology_terms returns exactly one merged object for every
\* distinct official_term of its input and none for any other; the object has
\* the fields of the entries of its group, a field whose values other than
\* None are all the same is that value as a scalar, and a field with two or
\* more distinct values is the list of the distinct values.
C15_OneMergedObjectPerTerm ==
  CollapseReturned =>
    /\ Len(cl_collapsed) = Cardinality(InputTerms)
    /\ \A g \in 1..Len(cl_collapsed) : cl_collapsed[g].official_term \in InputTerms
    /\ \A t \in InputTerms :
         /\ Cardinality(MergedFor(t)) = 1
         /\ \A g \in MergedFor(t) :
              LET merged == cl_collapsed[g]
                  group == Group(cl_entries, t)
              IN /\ DOMAIN merged = GroupKeys(cl_entries, group) \cup {"official_term"}
                 /\ \A key \in GroupKeys(cl_entries, group) :
                      LET distinct == GroupValues(cl_entries, group, key) IN
                      /\ Cardinality(distinct) = 1 => merged[key].scalar
                      /\ Cardinality(distinct) >= 2 => ~merged[key].scalar
                      /\ merged[key].values = distinct

\* two entries of one official_term with different accessions, one of them
\* carrying the field term: the accession is a list of two, the term a scalar
C15_Witness ==
  /\ CollapseReturned
  /\ Len(cl_entries) = 3
  /\ Len(cl_collapsed) = 2
  /\ \E g \in 1..Len(cl_collapsed) :
       /\ cl_collapsed[g].official_term = "B cell"
       /\ cl_collapsed[g].ontology_accession =
            [scalar |-> FALSE, values |-> {"CL_0000236", "CL_0000000"}]
       /\ "term" \in DOMAIN cl_collapsed[g]
       /\ cl_collapsed[g].term = [scalar |-> TRUE, values |-> {"B-cells"}]

(***************************************************************************)
(* Claims about the batch functions                                        *)
(***************************************************************************)
\* an identifier the batch has to skip: no GSM file, no GSE association, or
\* no context that can be read
MustSkip(context) ==
  \/ context.gsm = "missing"
  \/ ~context.gse_ids
  \/ context.gsm = "unparsable"
  \/ ~context.gse_files

HasRecord(position) == \E r \in 1..Len(b_results) : b_results[r].gsm_id = position

\* the loop body of this identifier has run to its end
Finished(position) == position < b_i \/ b_pc \in {"next_id", "returned"}

FailedVisit ==
  Visit(Context("ok", TRUE, TRUE),
        [object |-> EmptyObject, oracle_raised |-> TRUE], ReturnedNone)

\* C16: with the data loaded the batch never raises; it visits the
\* identifiers in order, skips exactly those with a missing GSM file, no GSE
\* association or no readable context (no resolver is called for them and
\* they have no record), calls the resolvers for every other identifier
\* whatever happened to the identifiers before it, keeps the record of every
\* identifier that resolved something, and has visited all of them when it
\* returns.
C16_BadRecordNeverAbortsBatch ==
  b_load = "ok" =>
    /\ b_pc # "raised"
    /\ Len(b_done) = IF b_pc = "factor" THEN b_i - 1 ELSE b_i
    /\ b_pc = "returned" => Len(b_done) = Len(b_ids)
    /\ \A j \in 1..Len(b_done) :
         /\ b_done[j].context = b_ids[j]
         /\ MustSkip(b_ids[j]) =>
              /\ b_done[j].factor = NotCalled
              /\ b_done[j].ontology = NotCalled
              /\ ~HasRecord(j)
         /\ ~MustSkip(b_ids[j]) =>
              /\ b_done[j].factor \in FactorOutcomes
              /\ (b_fn = "meta_extract_factors_and_ontologies" /\ Finished(j)) =>
                   b_done[j].ontology \in OntologyOutcomes
              /\ (Finished(j) /\ (b_done[j].factor.object.kind = "factor"
                                  \/ b_done[j].ontology.kind = "object")) =>
                   HasRecord(j)

\* the oracles failed for the first identifier, the second one is resolved
C16_Witness ==
  /\ b_pc = "returned"
  /\ Len(b_done) = 2
  /\ b_done[1] = FailedVisit
  /\ ~HasRecord(1)
  /\ HasRecord(2)

\* C17: every record of the result list has a factor block or an ontology
\* block with at least one resolved slot.
C17_RecordsHoldAResolvedValue ==
  \A r \in 1..Len(b_results) :
    \/ b_results[r].factor.kind = "factor"
    \/ /\ b_results[r].ontology.kind = "ontology"
       /\ \E key \in KeySet :
            b_results[r].ontology.extracted_ontologies[key] # NotApplicable

\* C18: when the loading fails the batch returns the empty list, having
\* visited no identifier and called no resolver.
C18_LoadFailureReturnsEmpty ==
  (b_load # "ok" /\ b_pc # "load") =>
    /\ b_pc = "returned"
    /\ b_results = <<>>
    /\ b_done = <<>>
    /\ b_i = 0

(***************************************************************************)
(* Further claims about validate_binding_protein and verify_factor          *)
(***************************************************************************)
\* the rows validate_binding_protein could choose from in a lookup: the rows
\* offered to the picker it asked, else the rows it was given
OfferedIn(lookup) ==
  IF lookup.picker = "tf_picker" THEN Range(tf_of[lookup.text])
  ELSE IF lookup.picker = "cr_picker" THEN Range(cr_of[lookup.text])
  ELSE Range(matches_of[lookup.text])

\* C21: whenever validate_binding_protein reports satisfied, the record it
\* returns is a row of the matches it was given, after a picker a row of the
\* set offered to that picker, or it is the lookup key itself and the key
\* passes validate_histone_mark.
C21_SatisfiedRecordWasOffered ==
  satisfied =>
    /\ round_log.looked # <<>>
    /\ result.kind = "row"
    /\ \/ result.row \in OfferedIn(LastLookup)
       \/ /\ result.row = [Symbol |-> LastLookup.text]
          /\ passes_histone[LastLookup.text]
          /\ LastLookup.picker = "none"

\* tf_picker chose ESR2 among the two rows it was offered for "ER"
C21_Witness ==
  /\ satisfied
  /\ round_log.looked # <<>>
  /\ LastLookup = Lookup(s_ER, "tf_picker", TRUE)
  /\ result.kind = "row"
  /\ result.row.Symbol = s_ESR2

(***************************************************************************)
(* Claims about the chromatin-remodeler filter                             *)
(***************************************************************************)
\* the symbols of the table the downloader writes
TableSymbols == Range(chromatin_df.chromatin_remodeler)

\* C22: every row given to validate_chromatin_remodelers whose Symbol is a
\* symbol of the chromatin-remodeler table is among the rows it returns.
C22_TableSymbolsPassFilter ==
  cr_pc = "returned" =>
    \A i \in 1..Len(cr_matches) :
      cr_matches[i].Symbol \in TableSymbols => cr_matches[i] \in Range(cr_filtered)

\* the answers of the first n calls that gave a candidate
Answers(n) == [k \in 1..n |-> candidate_log[k].answer]

\* C23: the list passed to the k-th factor_recheck call holds exactly the k
\* candidates evaluated so far, in the order they were evaluated: the
\* candidate extract_factor gave, then the answers of the earlier
\* factor_recheck calls.
C23_ExclusionListIsHistory ==
  /\ Len(candidate_log) = calls.extract_factor + calls.factor_recheck
  /\ \A k \in 1..(Len(candidate_log) - 1) :
       /\ Len(candidate_log[k + 1].excluded) = k
       /\ candidate_log[k + 1].excluded = Answers(k)
       /\ candidate_log[k + 1].excluded = SubSeq(failed_factors, 1, k)

\* the third factor_recheck call was passed three different candidates
C23_Witness ==
  /\ Len(candidate_log) = 4
  /\ candidate_log[4].excluded = <<s_XYZ, s_ER, s_POL2>>

\* C27: a run of verify_factor evaluates at most 3 candidates: the one
\* extract_factor gave and the answers of the first two factor_recheck
\* calls, in that order; the answer of the third factor_recheck call starts
\* no round (no histone check, no gene lookup); and the result carries a
\* Symbol only if a round was satisfied or returned its candidate as a
\* histone code.
C27_ThirdRecheckAnswerUnused ==
  /\ Len(failed_factors) <= 3
  /\ Len(failed_factors) = loop_count
  /\ Len(failed_factors) <= Len(candidate_log)
  /\ failed_factors = Answers(Len(failed_factors))
  /\ Len(candidate_log) = 4 =>
       /\ fpc \in {"while", "return", "done"}
       /\ RoundCandidate = candidate_log[3].answer
  /\ result.kind = "row" => (satisfied \/ returned_by = "histone")
  /\ verified_object.kind = "factor" => (satisfied \/ returned_by = "histone")

\* the third factor_recheck call answered a gene the table knows, and the run
\* ended without a factor
C27_Witness ==
  /\ fpc = "done"
  /\ Len(candidate_log) = 4
  /\ candidate_log[4].answer = s_ESR1
  /\ failed_factors = <<s_XYZ, s_XYZ, s_XYZ>>
  /\ verified_object = EmptyObject

\* C28: when the is_control call raises, extract_factor is not called and no
\* factor is returned for the record.
C28_NoFactorWithoutControlAnswer ==
  control = Raised =>
    /\ calls.extract_factor = 0
    /\ verified_object.kind # "factor"

\* the index pair and the word removal of each exact tier, in the order of
\* the calls in process_ontology
TierArguments ==
  << [efo |-> efo_index, uberon |-> uberon_index, remove_words |-> FALSE],
     [efo |-> efo_index, uberon |-> uberon_index, remove_words |-> TRUE],
     [efo |-> efo_reduce_index, uberon |-> uberon_reduce_index, remove_words |-> FALSE],
     [efo |-> efo_reduce_index, uberon |-> uberon_reduce_index, remove_words |-> TRUE] >>

\* the slots as each of the four exact tiers leaves them
RECURSIVE ExactTiers(_, _, _)
ExactTiers(obj, t, validated) ==
  IF t > Len(TierArguments) THEN <<>>
  ELSE Bind(validate_ontology(obj, cellosaurus_index, TierArguments[t].efo,
                              TierArguments[t].uberon, TierArguments[t].remove_words,
                              validated),
            LAMBDA v : <<v>> \o ExactTiers(obj, t + 1, v))

ExtractedObjects ==
  [cell_line : SlotInputs.cell_line, cell_type : SlotInputs.cell_type,
   tissue : SlotInputs.tissue, disease : SlotInputs.disease]

exact_tiers_of == [obj \in ExtractedObjects |-> ExactTiers(obj, 1, NoSlots)]

\* the slots after tier t of the first waterfall of the sample
TierValue(t) == IF t = 5 THEN completed_output ELSE exact_tiers_of[extracted][t]

\* what the indexes of exact tier t hold under the key of a slot
TierEntries(t, key) ==
  LET term_key == term_key_of[TierArguments[t].remove_words][extracted[key]]
  IN (IF HasKey(TierArguments[t].efo, term_key)
      THEN Tagged(Get(TierArguments[t].efo, term_key), extracted[key], key) ELSE <<>>)
     \o (IF HasKey(TierArguments[t].uberon, term_key)
         THEN Tagged(Get(TierArguments[t].uberon, term_key), extracted[key], key)
         ELSE <<>>)

\* tier t is the first to give the slot a non-empty match list
ResolvedAt(t, key) ==
  /\ ~IsNone(TierValue(t)[key])
  /\ \A s \in 1..(t - 1) : IsNone(TierValue(s)[key])

\* C24: in the first waterfall of a sample, a slot that some tier gave a
\* non-empty match list is not looked up by any later tier and keeps that
\* list through every later tier; and the exact tiers come in the order
\* full index, full index with the stop words removed, reduced index,
\* reduced index with the stop words removed, before the fuzzy tier: the
\* list of a slot first resolved by exact tier t is what the indexes of
\* tier t hold under its key, and the fuzzy tier reads the indexes only for
\* slots that all four exact tiers left unresolved.
C24_ResolvedSlotIsLeftAlone ==
  AfterFirstWaterfall =>
    \A key \in KeySet :
      /\ \A t \in 1..4 :
           /\ ~IsNone(TierValue(t)[key]) =>
                \A u \in (t + 1)..5 :
                  /\ <<u, key>> \notin lookups
                  /\ TierValue(u)[key] = TierValue(t)[key]
           /\ ResolvedAt(t, key) =>
                /\ <<t, key>> \in lookups
                /\ TierValue(t)[key] = TierEntries(t, key)
      /\ <<5, key>> \in lookups => \A t \in 1..4 : IsNone(TierValue(t)[key])

\* one slot was resolved by the first tier and another only by the third
C24_Witness ==
  /\ AfterFirstWaterfall
  /\ \E k1, k3 \in KeySet :
       /\ ResolvedAt(1, k1)
       /\ {t \in Tiers : <<t, k1>> \in lookups} = {1}
       /\ ResolvedAt(3, k3)
       /\ {t \in Tiers : <<t, k3>> \in lookups} = {1, 2, 3}

\* the rows of the two fuzzy indexes the fuzzy tier reads, as loaded
FuzzyRowsConsulted == Range(loaded_fuzzy.efo) \cup Range(loaded_fuzzy.uberon)

\* the similarity of the cleaned text of a slot and the key of a row
SlotScore(key, row) == ratio_of[fuzzy_key_of[extracted[key]]][row.key]

\* C25: in the fuzzy tier of the first waterfall over the indexes as loaded,
\* every entry placed in a slot comes from a key whose similarity to the
\* slot's text is the maximum over all keys of the EFO and Uberon fuzzy
\* indexes taken together, and that maximum is at least 0.85.
C25_FuzzyKeepsOverallMaximum ==
  (AfterFirstWaterfall /\ sample = 1) =>
    \A key \in KeySet :
      <<5, key>> \in lookups =>
        \A i \in 1..Len(completed_output[key]) :
          \E row \in FuzzyRowsConsulted :
            /\ \E j \in 1..Len(row.values) :
                 row.values[j].ontology_accession =
                   completed_output[key][i].ontology_accession
            /\ ~FracLess(SlotScore(key, row), max_score_start)
            /\ \A other \in FuzzyRowsConsulted :
                 ~FracLess(SlotScore(key, row), SlotScore(key, other))

\* what the waterfall gives a slot for an alternate name, every other slot
\* being "N/A"
alt_value_of ==
  [key \in KeySet |->
     [alt_name \in AltStrings |->
        process_ontology(new_input(key, alt_name), loaded_fuzzy).validated[key]]]

\* the alternate at position i of the logged answer is resolved for the slot
AltResolves(i) ==
  /\ alt_log.alt_names[i] \in AltStrings
  /\ ~IsNone(alt_value_of[alt_log.key][alt_log.alt_names[i]])

\* the retry loop of the logged slot ran to its end or to its break
RetryCompleted == alt_log.key # "none" /\ alt_log.kind = "list" /\ alt_log.status # "raised"

\* C26: a slot is retried only when its candidate is neither empty nor "N/A"
\* and the first waterfall left it unresolved; the alternates are run through
\* the waterfall in the order returned, each alone with the other three
\* slots "N/A" (so the retry reads the indexes for no other slot); the loop
\* stops at the first alternate the waterfall resolves and that result
\* becomes the value of the slot, or the slot stays unresolved when none is;
\* and no other slot changes its value.
C26_AlternatesInOrderUntilResolved ==
  alt_log.key # "none" =>
    /\ needs_alternates(extracted[alt_log.key], alt_log.before[alt_log.key])
    /\ \A other \in KeySet \ {alt_log.key} :
         /\ completed_output[other] = alt_log.before[other]
         /\ \A t \in Tiers : <<t, other>> \in lookups => <<t, other>> \in alt_log.looked
    /\ alt_log.runs <= Len(alt_log.alt_names)
    /\ \A i \in 1..(alt_log.runs - 1) : ~AltResolves(i)
    /\ RetryCompleted =>
         IF \E i \in 1..Len(alt_log.alt_names) : AltResolves(i)
         THEN /\ AltResolves(alt_log.runs)
              /\ completed_output[alt_log.key] =
                   alt_value_of[alt_log.key][alt_log.alt_names[alt_log.runs]]
         ELSE /\ alt_log.runs = Len(alt_log.alt_names)
              /\ IsNone(completed_output[alt_log.key])

\* the second of four alternates was resolved for the cell type slot while the
\* tissue slot held a value, and the two alternates after it were not run
C26_Witness ==
  /\ RetryCompleted
  /\ alt_log.key = "cell_type"
  /\ alt_log.alt_names = <<o_Nothing, o_Lung, o_Nothing, o_Lung>>
  /\ alt_log.runs = 2
  /\ ~IsNone(completed_output.cell_type)
  /\ ~IsNone(completed_output.tissue)

\* the texts clean_input turns into the empty string
EmptyTexts == {f \in FactorTexts : clean_input(f) = <<>>}

\* C29: a candidate or synonym whose clean_input form is the empty string
\* gets no row of the gene table from match_human_gene, and the lookup of
\* it never satisfies the round.
C29_EmptyCandidateMatchesNothing ==
  \A k \in 1..Len(round_log.looked) :
    round_log.looked[k].text \in EmptyTexts =>
      /\ matches_of[round_log.looked[k].text] = <<>>
      /\ ~round_log.looked[k].sat

\* C30: when process_data ends, every downloaded file that was there when it
\* started is still there or has its parsed output.
C30_RawDeletedOnlyAfterParsed ==
  pd_pc = "done" => \A file \in raw_at_start : file \in raw \/ file \in parsed

====
